---- MODULE Spec2Model ----
(***************************************************************************)
(* A model of the S3 storage adapter (src/storage.go, src/utils.go):       *)
(* request formatting, the multipart coordinator, the presigned-request    *)
(* builder and the page iterators, over a backend that answers each call.  *)
(*                                                                         *)
(* Representation.                                                         *)
(*  - A string that the code takes apart (paths, keys, the work dir) is a  *)
(*    sequence of one-character strings.                                   *)
(*  - An int64 byte size is a pair <<q, r>> standing for q * 2^30 + r with *)
(*    0 <= r < 2^30, so that 5 GiB and 5 GiB + 1 are both representable.   *)
(*  - A pointer field of an SDK input is Unset (nil) or Some(v).           *)
(*  - An error is a record [type, msg, wraps]: its Go dynamic type, its    *)
(*    code or text, and the sentinel it wraps with %w (or "none").         *)
(***************************************************************************)
EXTENDS Integers, Sequences, FiniteSets, TLC

VARIABLES
    workDir,    \* Storage.workDir
    features,   \* Storage.features: [VirtualDir, VirtualLink]
    obj,        \* the object descriptor of the multipart session the caller holds
    last,       \* the operation that has just returned: its arguments, the
                \* backend calls it issued, its error and its results
    store,      \* the backend's bucket: its objects, the multipart uploads in
                \* progress and their parts, by wire number
    page,       \* the page iterator the caller is pulling from
    held,       \* the Parts the caller's uploads to the session of obj returned
    running     \* the uploadPart calls that run side by side: where each one is,
                \* and what it holds in its local variables

vars == <<workDir, features, obj, last, store, page, held, running>>

----------------------------------------------------------------------------
(* Bounds of the model *)

\* longest part list handed to complete
MaxParts == 2

----------------------------------------------------------------------------
(* Program constants *)

\* utils.go:345
multipartNumberMaximum == 10000
\* utils.go:347, 5 * 1024 * 1024 * 1024 bytes
multipartSizeMaximum == <<5, 0>>
\* utils.go:355, 5 * 1024 * 1024 * 1024 bytes
writeSizeMaximum == <<5, 0>>
\* utils.go:331, the length a customer key must have
customerKeyLength == 32
\* storage.go:258, storage.go:291
defaultPageSize == 200

name == "bucket"
\* a nil pointer field, and a field pointing to v
Unset == <<>>
Some(v) == <<v>>
\* the nil input a formatter returns beside an error
NoInput == [api |-> "none"]

ModeRead == "ModeRead"
ModeDir == "ModeDir"
ModeLink == "ModeLink"
ModePart == "ModePart"

\* a > b on sizes
Gt64(a, b) == a[1] > b[1] \/ (a[1] = b[1] /\ a[2] > b[2])

----------------------------------------------------------------------------
(* strings *)

HasPrefix(s, p) == Len(s) >= Len(p) /\ SubSeq(s, 1, Len(p)) = p

TrimPrefix(s, p) == IF HasPrefix(s, p) THEN SubSeq(s, Len(p) + 1, Len(s)) ELSE s

\* utils.go getAbsPath
getAbsPath(path) == TrimPrefix(workDir, <<"/">>) \o path

\* the work dir stripped whole, leading separator included
getRelPathByWorkDir(path) == TrimPrefix(path, workDir)

\* utils.go getRelPath
getRelPath(path) == TrimPrefix(path, TrimPrefix(workDir, <<"/">>))

----------------------------------------------------------------------------
(* errors *)

Nil == [type |-> "nil", msg |-> "", wraps |-> "none"]

\* fmt.Errorf("...: %w", services.ErrRestrictionDissatisfied)
ErrRestriction(msg) ==
    [type |-> "fmt.wrapError", msg |-> msg, wraps |-> "ErrRestrictionDissatisfied"]

\* fmt.Errorf("reader is nil but size is not 0")
ErrReaderNil ==
    [type |-> "errors.errorString", msg |-> "reader is nil but size is not 0",
     wraps |-> "none"]

\* unnamed/part_000: services.NewErrorCode(...)
ErrServerSideEncryptionCustomerKeyInvalid ==
    [type |-> "services.ErrorCode",
     msg |-> "invalid server-side encryption customer key", wraps |-> "none"]

\* services.PairUnsupportedError{Pair: ps.WithObjectMode(...)}
PairUnsupportedError(pair) ==
    [type |-> "services.PairUnsupportedError", msg |-> pair,
     wraps |-> "ErrCapabilityInsufficient"]

\* NewOperationNotImplementedError(op)
OperationNotImplementedError(op) ==
    [type |-> "types.OperationNotImplementedError", msg |-> op, wraps |-> "none"]

\* what the SDK returns for a backend answer with an error code
RequestFailure(code) == [type |-> "awserr.RequestFailure", msg |-> code, wraps |-> "none"]

\* what the SDK returns when the context handed to a ...WithContext call is
\* cancelled while the call is in flight
ErrCanceled == [type |-> "awserr.Error", msg |-> "RequestCanceled", wraps |-> "context.Canceled"]

----------------------------------------------------------------------------
(* the backend's answer to one call *)

\* The SDK call `s.service.X(input)` runs under the background context, the call
\* `s.service.XWithContext(ctx, input)` under the caller's: call.ctx says which.
\* `cancel`: the caller's context is cancelled while the call is in flight.
Outcome(call, answer, cancel) == IF cancel /\ call.ctx THEN "canceled" ELSE answer

ErrOf(outcome) ==
    IF outcome = "ok" THEN Nil
    ELSE IF outcome = "canceled" THEN ErrCanceled
    ELSE RequestFailure(outcome)

Call(input, ctx) == [input |-> input, ctx |-> ctx]

----------------------------------------------------------------------------
(* server-side encryption with a customer key *)

\* base64.StdEncoding.EncodeToString and md5.Sum are injective respectively
\* collision-free for the purposes of this model: terms over their argument.
StdEncodingEncodeToString(bytes) == <<"base64", bytes>>
md5Sum(bytes) == <<"md5", bytes>>

\* the headers computed without the check of the key length
calculateEncryptionHeadersNoCheck(algo, key) ==
    [algorithm |-> Some(algo),
     keyBase64 |-> Some(StdEncodingEncodeToString(key)),
     keyMD5Base64 |-> Some(StdEncodingEncodeToString(md5Sum(key))),
     err |-> Nil]

\* utils.go calculateEncryptionHeaders
calculateEncryptionHeaders(algo, key) ==
    IF Len(key) # customerKeyLength
    THEN [algorithm |-> Unset, keyBase64 |-> Unset, keyMD5Base64 |-> Unset,
          err |-> ErrServerSideEncryptionCustomerKeyInvalid]
    ELSE [algorithm |-> Some(algo),
          keyBase64 |-> Some(StdEncodingEncodeToString(key)),
          keyMD5Base64 |-> Some(StdEncodingEncodeToString(md5Sum(key))),
          err |-> Nil]

\* the three assignments `input.SSECustomerAlgorithm, input.SSECustomerKey,
\* input.SSECustomerKeyMD5, err = calculateEncryptionHeaders(...)`
WithSSEC(input, opt) ==
    IF opt.HasServerSideEncryptionCustomerAlgorithm
    THEN LET h == calculateEncryptionHeaders(opt.ServerSideEncryptionCustomerAlgorithm,
                                             opt.ServerSideEncryptionCustomerKey)
         IN  [input |-> [input EXCEPT !.SSECustomerAlgorithm = h.algorithm,
                                      !.SSECustomerKey = h.keyBase64,
                                      !.SSECustomerKeyMD5 = h.keyMD5Base64],
              err |-> h.err]
    ELSE [input |-> input, err |-> Nil]

WithOwner(input, opt) ==
    IF opt.HasExceptedBucketOwner
    THEN [input EXCEPT !.ExpectedBucketOwner = Some(opt.ExceptedBucketOwner)]
    ELSE input

----------------------------------------------------------------------------
(* the options bag of a call: every field with its presence flag *)

NoOpt ==
    [HasExceptedBucketOwner |-> FALSE, ExceptedBucketOwner |-> "",
     HasServerSideEncryptionCustomerAlgorithm |-> FALSE,
     ServerSideEncryptionCustomerAlgorithm |-> "",
     ServerSideEncryptionCustomerKey |-> <<>>,
     HasContentMd5 |-> FALSE, ContentMd5 |-> "",
     HasStorageClass |-> FALSE, StorageClass |-> "",
     HasServerSideEncryptionBucketKeyEnabled |-> FALSE,
     ServerSideEncryptionBucketKeyEnabled |-> FALSE,
     HasServerSideEncryptionAwsKmsKeyID |-> FALSE, ServerSideEncryptionAwsKmsKeyID |-> "",
     HasServerSideEncryptionContext |-> FALSE, ServerSideEncryptionContext |-> "",
     HasServerSideEncryption |-> FALSE, ServerSideEncryption |-> "",
     HasMultipartID |-> FALSE, MultipartID |-> "",
     HasObjectMode |-> FALSE, ObjectMode |-> {},
     HasOffset |-> FALSE, Offset |-> 0,
     HasSize |-> FALSE, Size |-> 0,
     HasIoCallback |-> FALSE]

----------------------------------------------------------------------------
(* object descriptors *)

\* utils.go newObject: typ.NewObject(s, done), no mode, no multipart ID
newObject == [ID |-> <<>>, Path |-> <<>>, Mode |-> {}, MultipartID |-> Unset,
              LinkTarget |-> Unset, Etag |-> Unset]

\* o.MustGetMultipartID(): the ID of an object that has one
MustGetMultipartID(o) == o.MultipartID[1]

----------------------------------------------------------------------------
(* Request Formatter: utils.go *)

GetObjectInput(key) ==
    [api |-> "GetObject", Bucket |-> name, Key |-> key, Range |-> Unset,
     ExpectedBucketOwner |-> Unset, SSECustomerAlgorithm |-> Unset,
     SSECustomerKey |-> Unset, SSECustomerKeyMD5 |-> Unset]

\* fmt.Sprintf("bytes=%d-%d", first, lastByte) and fmt.Sprintf("bytes=%d-", first)
RangeHeader(first, lastByte) == <<"bytes=", first, "-", lastByte>>
RangeFrom(first) == <<"bytes=", first, "-">>

\* utils.go formatGetObjectInput
formatGetObjectInput(path, opt) ==
    LET rp == getAbsPath(path)
        i0 == GetObjectInput(rp)
        i1 == IF opt.HasOffset /\ opt.HasSize
              THEN [i0 EXCEPT !.Range = Some(RangeHeader(opt.Offset, opt.Offset + opt.Size - 1))]
              ELSE IF opt.HasOffset /\ ~opt.HasSize
              THEN [i0 EXCEPT !.Range = Some(RangeFrom(opt.Offset))]
              ELSE IF ~opt.HasOffset /\ opt.HasSize
              THEN [i0 EXCEPT !.Range = Some(RangeHeader(0, opt.Size - 1))]
              ELSE i0
        i2 == WithOwner(i1, opt)
        r  == WithSSEC(i2, opt)
    IN  IF r.err # Nil THEN [input |-> NoInput, err |-> r.err] ELSE r

PutObjectInput(key, size) ==
    [api |-> "PutObject", Bucket |-> name, Key |-> key, ContentLength |-> size,
     ContentMD5 |-> Unset, StorageClass |-> Unset, ExpectedBucketOwner |-> Unset,
     BucketKeyEnabled |-> Unset, SSECustomerAlgorithm |-> Unset,
     SSECustomerKey |-> Unset, SSECustomerKeyMD5 |-> Unset, SSEKMSKeyId |-> Unset,
     SSEKMSEncryptionContext |-> Unset, ServerSideEncryption |-> Unset,
     Metadata |-> Unset, Body |-> Unset]

\* the fields formatPutObjectInput and formatCreateMultipartUploadInput set after
\* the customer key: KMS key id, encryption context (base64), encryption
WithKMS(input, opt) ==
    LET a == IF opt.HasServerSideEncryptionAwsKmsKeyID
             THEN [input EXCEPT !.SSEKMSKeyId = Some(opt.ServerSideEncryptionAwsKmsKeyID)]
             ELSE input
        b == IF opt.HasServerSideEncryptionContext
             THEN [a EXCEPT !.SSEKMSEncryptionContext =
                       Some(StdEncodingEncodeToString(opt.ServerSideEncryptionContext))]
             ELSE a
    IN  IF opt.HasServerSideEncryption
        THEN [b EXCEPT !.ServerSideEncryption = Some(opt.ServerSideEncryption)]
        ELSE b

WithBucketKey(input, opt) ==
    IF opt.HasServerSideEncryptionBucketKeyEnabled
    THEN [input EXCEPT !.BucketKeyEnabled = Some(opt.ServerSideEncryptionBucketKeyEnabled)]
    ELSE input

\* utils.go formatPutObjectInput
formatPutObjectInput(path, size, opt) ==
    LET rp == getAbsPath(path)
        i0 == PutObjectInput(rp, Some(size))
        i1 == IF opt.HasContentMd5 THEN [i0 EXCEPT !.ContentMD5 = Some(opt.ContentMd5)] ELSE i0
        i2 == IF opt.HasStorageClass THEN [i1 EXCEPT !.StorageClass = Some(opt.StorageClass)] ELSE i1
        i3 == WithBucketKey(WithOwner(i2, opt), opt)
        r  == WithSSEC(i3, opt)
    IN  IF r.err # Nil THEN [input |-> NoInput, err |-> r.err]
        ELSE [input |-> WithKMS(r.input, opt), err |-> Nil]

\* utils.go formatAbortMultipartUploadInput
formatAbortMultipartUploadInput(path, opt) ==
    WithOwner([api |-> "AbortMultipartUpload", Bucket |-> name,
               Key |-> getAbsPath(path), UploadId |-> opt.MultipartID,
               ExpectedBucketOwner |-> Unset], opt)

\* the key of a directory sent as the key of a file
formatDeleteObjectInputNoSeparator(path, opt) ==
    LET rp  == getAbsPath(path)
        dir == opt.HasObjectMode /\ ModeDir \in opt.ObjectMode
    IN  IF dir /\ ~features.VirtualDir
        THEN [input |-> NoInput, err |-> PairUnsupportedError("object_mode")]
        ELSE [input |-> WithOwner([api |-> "DeleteObject", Bucket |-> name,
                                   Key |-> rp,
                                   ExpectedBucketOwner |-> Unset], opt),
              err |-> Nil]

\* utils.go formatDeleteObjectInput
formatDeleteObjectInput(path, opt) ==
    LET rp  == getAbsPath(path)
        dir == opt.HasObjectMode /\ ModeDir \in opt.ObjectMode
    IN  IF dir /\ ~features.VirtualDir
        THEN [input |-> NoInput, err |-> PairUnsupportedError("object_mode")]
        ELSE [input |-> WithOwner([api |-> "DeleteObject", Bucket |-> name,
                                   Key |-> IF dir THEN rp \o <<"/">> ELSE rp,
                                   ExpectedBucketOwner |-> Unset], opt),
              err |-> Nil]

\* utils.go formatCreateMultipartUploadInput
formatCreateMultipartUploadInput(path, opt) ==
    LET rp == getAbsPath(path)
        i0 == [api |-> "CreateMultipartUpload", Bucket |-> name, Key |-> rp,
               BucketKeyEnabled |-> Unset, ExpectedBucketOwner |-> Unset,
               SSECustomerAlgorithm |-> Unset, SSECustomerKey |-> Unset,
               SSECustomerKeyMD5 |-> Unset, SSEKMSKeyId |-> Unset,
               SSEKMSEncryptionContext |-> Unset, ServerSideEncryption |-> Unset]
        r  == WithSSEC(WithOwner(WithBucketKey(i0, opt), opt), opt)
    IN  IF r.err # Nil THEN [input |-> NoInput, err |-> r.err]
        ELSE [input |-> WithKMS(r.input, opt), err |-> Nil]

\* the s3.CompletedPart of one caller part
CompletedPart(v) == [ETag |-> v.ETag, PartNumber |-> v.Index + 1]

\* parts sorted by index (insertion sort)
RECURSIVE InsertPart(_, _)
InsertPart(v, sorted) ==
    IF sorted = <<>> THEN <<v>>
    ELSE IF v.Index < Head(sorted).Index THEN <<v>> \o sorted
    ELSE <<Head(sorted)>> \o InsertPart(v, Tail(sorted))

RECURSIVE SortParts(_)
SortParts(parts) ==
    IF parts = <<>> THEN <<>> ELSE InsertPart(Head(parts), SortParts(Tail(parts)))

\* the parts sorted by part number before they are sent
formatCompleteMultipartUploadInputSorted(o, parts, opt) ==
    WithOwner([api |-> "CompleteMultipartUpload", Bucket |-> name, Key |-> o.ID,
               MultipartUpload |->
                   [i \in 1..Len(parts) |-> CompletedPart(SortParts(parts)[i])],
               UploadId |-> MustGetMultipartID(o),
               ExpectedBucketOwner |-> Unset], opt)

\* utils.go formatCompleteMultipartUploadInput
formatCompleteMultipartUploadInput(o, parts, opt) ==
    WithOwner([api |-> "CompleteMultipartUpload", Bucket |-> name, Key |-> o.ID,
               MultipartUpload |-> [i \in 1..Len(parts) |-> CompletedPart(parts[i])],
               UploadId |-> MustGetMultipartID(o),
               ExpectedBucketOwner |-> Unset], opt)

UploadPartInput(o, size, index) ==
    [api |-> "UploadPart", Bucket |-> name, PartNumber |-> index + 1, Key |-> o.ID,
     UploadId |-> MustGetMultipartID(o), ContentLength |-> Some(size), Body |-> Unset,
     ExpectedBucketOwner |-> Unset, SSECustomerAlgorithm |-> Unset,
     SSECustomerKey |-> Unset, SSECustomerKeyMD5 |-> Unset]

\* utils.go formatUploadPartInput
formatUploadPartInput(o, size, index, opt) ==
    LET r == WithSSEC(WithOwner(UploadPartInput(o, size, index), opt), opt)
    IN  IF r.err # Nil THEN [input |-> NoInput, err |-> r.err] ELSE r

----------------------------------------------------------------------------
(* Operations: storage.go. Each operator is one call of the operation, given  *)
(* its arguments and what the backend answers (answer, and cancel: whether   *)
(* the caller's context is cancelled while the call is in flight). It yields *)
(* the backend calls issued, the error returned, the values returned, and    *)
(* the object descriptor it was given, as the call leaves it.                *)

NoRet == [kind |-> "none"]

Result(calls, err, ret, o) == [calls |-> calls, err |-> err, ret |-> ret, o |-> o]

\* the mode flipped before the error of the call is looked at
completeMultipartFlipAlways(o, parts, opt, answer, cancel) ==
    LET call == Call(formatCompleteMultipartUploadInput(o, parts, opt), TRUE)
        err  == ErrOf(Outcome(call, answer, cancel))
    IN  Result(<<call>>, err, NoRet,
               [o EXCEPT !.Mode = (@ \ {ModePart}) \cup {ModeRead}])

\* storage.go completeMultipart
completeMultipart(o, parts, opt, answer, cancel) ==
    LET call == Call(formatCompleteMultipartUploadInput(o, parts, opt), TRUE)
        err  == ErrOf(Outcome(call, answer, cancel))
    IN  IF err # Nil
        THEN Result(<<call>>, err, NoRet, o)
        ELSE Result(<<call>>, Nil, NoRet,
                    [o EXCEPT !.Mode = (@ \ {ModePart}) \cup {ModeRead}])

\* storage.go createDir
createDir(path, opt, answer, cancel, etag) ==
    IF ~features.VirtualDir
    THEN Result(<<>>, OperationNotImplementedError("create_dir"), NoRet, newObject)
    ELSE LET rp   == getAbsPath(path) \o <<"/">>
             i0   == PutObjectInput(rp, Some(<<0, 0>>))
             i1   == IF opt.HasStorageClass
                     THEN [i0 EXCEPT !.StorageClass = Some(opt.StorageClass)] ELSE i0
             call == Call(WithOwner(i1, opt), TRUE)
             err  == ErrOf(Outcome(call, answer, cancel))
         IN  IF err # Nil
             THEN Result(<<call>>, err, NoRet, newObject)
             ELSE Result(<<call>>, Nil, NoRet,
                         [newObject EXCEPT !.Mode = {ModeDir}, !.ID = rp,
                                           !.Path = path, !.Etag = Some(etag)])

\* storage.go createLink
createLink(path, target, opt, answer, cancel) ==
    LET rt   == getAbsPath(target)
        rp   == getAbsPath(path)
        call == Call([PutObjectInput(rp, Unset) EXCEPT !.Metadata = Some(rt)], TRUE)
        err  == ErrOf(Outcome(call, answer, cancel))
        o    == [newObject EXCEPT !.ID = rp, !.Path = path]
    IN  IF err # Nil
        THEN Result(<<call>>, err, NoRet, newObject)
        ELSE IF ~features.VirtualLink
        THEN Result(<<call>>, Nil, NoRet, [o EXCEPT !.Mode = @ \cup {ModeRead}])
        ELSE Result(<<call>>, Nil, NoRet,
                    [o EXCEPT !.LinkTarget = Some(<<"/">> \o rt),
                              !.Mode = @ \cup {ModeLink}])

\* storage.go createMultipart
createMultipart(path, opt, answer, cancel, uploadId) ==
    LET rp == getAbsPath(path)
        f  == formatCreateMultipartUploadInput(path, opt)
    IN  IF f.err # Nil
        THEN Result(<<>>, f.err, NoRet, newObject)
        ELSE LET call == Call(f.input, FALSE)
                 err  == ErrOf(Outcome(call, answer, cancel))
             IN  IF err # Nil
                 THEN Result(<<call>>, err, NoRet, newObject)
                 ELSE Result(<<call>>, Nil, NoRet,
                             [newObject EXCEPT !.ID = rp, !.Path = path,
                                               !.Mode = @ \cup {ModePart},
                                               !.MultipartID = Some(uploadId)])

\* storage.go delete; answers[i] and cancels[i] are the backend's answer to the
\* i-th call it issues
delete(path, opt, answers, cancels) ==
    LET abort  == Call(formatAbortMultipartUploadInput(path, opt), FALSE)
        aerr   == ErrOf(Outcome(abort, answers[1], cancels[1]))
        before == IF opt.HasMultipartID THEN <<abort>> ELSE <<>>
        f      == formatDeleteObjectInput(path, opt)
    IN  IF opt.HasMultipartID /\ aerr # Nil
        THEN Result(<<abort>>, aerr, NoRet, newObject)
        ELSE IF f.err # Nil
        THEN Result(before, f.err, NoRet, newObject)
        ELSE LET call == Call(f.input, FALSE)
                 i    == Len(before) + 1
             IN  Result(Append(before, call),
                        ErrOf(Outcome(call, answers[i], cancels[i])), NoRet, newObject)

\* storage.go read; n is what io.Copy reports for the body the backend sent
read(path, opt, answer, cancel, n) ==
    LET f == formatGetObjectInput(path, opt)
    IN  IF f.err # Nil
        THEN Result(<<>>, f.err, [n |-> <<0, 0>>], newObject)
        ELSE LET call == Call(f.input, TRUE)
                 err  == ErrOf(Outcome(call, answer, cancel))
             IN  IF err # Nil
                 THEN Result(<<call>>, err, [n |-> <<0, 0>>], newObject)
                 ELSE Result(<<call>>, Nil, [n |-> n], newObject)

\* the s3.ListPartsInput of stat, nextPartPage and querySignHTTPListMultipart
ListPartsInput(key, uploadId) ==
    [api |-> "ListParts", Bucket |-> name, Key |-> key, UploadId |-> uploadId,
     MaxParts |-> Unset, PartNumberMarker |-> Unset, ExpectedBucketOwner |-> Unset]

\* storage.go stat; meta is the link target among the metadata the backend
\* returns for the object, if any
stat(path, opt, answer, cancel, meta) ==
    LET rp0 == getAbsPath(path)
        dir == opt.HasObjectMode /\ ModeDir \in opt.ObjectMode
    IN  IF opt.HasMultipartID
        THEN LET call == Call(WithOwner(ListPartsInput(rp0, opt.MultipartID), opt), TRUE)
                 err  == ErrOf(Outcome(call, answer, cancel))
             IN  IF err # Nil
                 THEN Result(<<call>>, err, NoRet, newObject)
                 ELSE Result(<<call>>, Nil, NoRet,
                             [newObject EXCEPT !.ID = rp0, !.Path = path,
                                               !.Mode = @ \cup {ModePart},
                                               !.MultipartID = Some(opt.MultipartID)])
        ELSE IF dir /\ ~features.VirtualDir
        THEN Result(<<>>, PairUnsupportedError("object_mode"), NoRet, newObject)
        ELSE LET rp == IF dir THEN rp0 \o <<"/">> ELSE rp0
                 i0 == [api |-> "HeadObject", Bucket |-> name, Key |-> rp,
                        ExpectedBucketOwner |-> Unset, SSECustomerAlgorithm |-> Unset,
                        SSECustomerKey |-> Unset, SSECustomerKeyMD5 |-> Unset]
                 f  == WithSSEC(WithOwner(i0, opt), opt)
             IN  IF f.err # Nil
                 THEN Result(<<>>, f.err, NoRet, newObject)
                 ELSE LET call == Call(f.input, FALSE)
                          err  == ErrOf(Outcome(call, answer, cancel))
                          o0   == [newObject EXCEPT !.ID = rp, !.Path = path]
                          o1   == IF meta = Unset THEN o0
                                  ELSE IF ~features.VirtualLink
                                  THEN [o0 EXCEPT !.Mode = @ \cup {ModeRead}]
                                  ELSE [o0 EXCEPT !.Mode = @ \cup {ModeLink},
                                                  !.LinkTarget = Some(<<"/">> \o meta[1])]
                          o2   == IF ModeLink \notin o1.Mode /\ ModeRead \notin o1.Mode
                                  THEN [o1 EXCEPT !.Mode = @ \cup
                                           (IF dir THEN {ModeDir} ELSE {ModeRead})]
                                  ELSE o1
                      IN  IF err # Nil
                          THEN Result(<<call>>, err, NoRet, newObject)
                          ELSE Result(<<call>>, Nil, NoRet, o2)

\* the size limit checked after the reader and the request are prepared
writeCheckSizeLate(path, rNil, size, opt, answer, cancel) ==
    IF rNil /\ size # <<0, 0>>
    THEN Result(<<>>, ErrReaderNil, [n |-> <<0, 0>>], newObject)
    ELSE LET f == formatPutObjectInput(path, size, opt)
         IN  IF f.err # Nil
             THEN Result(<<>>, f.err, [n |-> <<0, 0>>], newObject)
             ELSE IF Gt64(size, writeSizeMaximum)
             THEN Result(<<>>, ErrRestriction("size limit exceeded"),
                         [n |-> <<0, 0>>], newObject)
             ELSE LET call == Call([f.input EXCEPT !.Body = Some("body")], TRUE)
                      err  == ErrOf(Outcome(call, answer, cancel))
                  IN  IF err # Nil
                      THEN Result(<<call>>, err, [n |-> <<0, 0>>], newObject)
                      ELSE Result(<<call>>, Nil, [n |-> size], newObject)

\* storage.go write; rNil: the reader handed in is nil
write(path, rNil, size, opt, answer, cancel) ==
    IF Gt64(size, writeSizeMaximum)
    THEN Result(<<>>, ErrRestriction("size limit exceeded"), [n |-> <<0, 0>>], newObject)
    ELSE IF rNil /\ size # <<0, 0>>
    THEN Result(<<>>, ErrReaderNil, [n |-> <<0, 0>>], newObject)
    ELSE LET f == formatPutObjectInput(path, size, opt)
         IN  IF f.err # Nil
             THEN Result(<<>>, f.err, [n |-> <<0, 0>>], newObject)
             ELSE LET call == Call([f.input EXCEPT !.Body = Some("body")], TRUE)
                      err  == ErrOf(Outcome(call, answer, cancel))
                  IN  IF err # Nil
                      THEN Result(<<call>>, err, [n |-> <<0, 0>>], newObject)
                      ELSE Result(<<call>>, Nil, [n |-> size], newObject)

NoPart == [Index |-> -1, Size |-> <<0, 0>>, ETag |-> ""]

\* the index limit off by one: index = multipartNumberMaximum accepted
writeMultipartOffByOne(o, size, index, opt, answer, cancel, etag) ==
    IF Gt64(size, multipartSizeMaximum)
    THEN Result(<<>>, ErrRestriction("size limit exceeded"),
                [n |-> <<0, 0>>, part |-> NoPart], o)
    ELSE IF index < 0 \/ index > multipartNumberMaximum
    THEN Result(<<>>, ErrRestriction("multipart number limit exceeded"),
                [n |-> <<0, 0>>, part |-> NoPart], o)
    ELSE LET i0 == [UploadPartInput(o, size, index) EXCEPT !.Body = Some("body")]
             f  == WithSSEC(WithOwner(i0, opt), opt)
         IN  IF f.err # Nil
             THEN Result(<<>>, f.err, [n |-> <<0, 0>>, part |-> NoPart], o)
             ELSE LET call == Call(f.input, TRUE)
                      err  == ErrOf(Outcome(call, answer, cancel))
                  IN  IF err # Nil
                      THEN Result(<<call>>, err, [n |-> <<0, 0>>, part |-> NoPart], o)
                      ELSE Result(<<call>>, Nil,
                                  [n |-> size,
                                   part |-> [Index |-> index, Size |-> size, ETag |-> etag]],
                                  o)

\* storage.go writeMultipart; etag is the ETag of the backend's answer
writeMultipart(o, size, index, opt, answer, cancel, etag) ==
    IF Gt64(size, multipartSizeMaximum)
    THEN Result(<<>>, ErrRestriction("size limit exceeded"),
                [n |-> <<0, 0>>, part |-> NoPart], o)
    ELSE IF index < 0 \/ index >= multipartNumberMaximum
    THEN Result(<<>>, ErrRestriction("multipart number limit exceeded"),
                [n |-> <<0, 0>>, part |-> NoPart], o)
    ELSE LET i0 == [UploadPartInput(o, size, index) EXCEPT !.Body = Some("body")]
             f  == WithSSEC(WithOwner(i0, opt), opt)
         IN  IF f.err # Nil
             THEN Result(<<>>, f.err, [n |-> <<0, 0>>, part |-> NoPart], o)
             ELSE LET call == Call(f.input, TRUE)
                      err  == ErrOf(Outcome(call, answer, cancel))
                  IN  IF err # Nil
                      THEN Result(<<call>>, err, [n |-> <<0, 0>>, part |-> NoPart], o)
                      ELSE Result(<<call>>, Nil,
                                  [n |-> size,
                                   part |-> [Index |-> index, Size |-> size, ETag |-> etag]],
                                  o)

----------------------------------------------------------------------------
(* Presigned-Request Builder: storage.go querySignHTTP...                     *)
(* The options of a presigned call are the pairs of the direct operation;    *)
(* signOk: the SDK's PresignRequest(expire) succeeded.                        *)

ErrSign == [type |-> "awserr.Error", msg |-> "SignError", wraps |-> "none"]

\* http.NewRequest(method, url, body) with the signed headers: the request is
\* determined by the method, the input the URL and headers are signed from, the
\* body and the content length set on it
HTTPRequest(method, input, body, contentLength) ==
    [method |-> method, input |-> input, body |-> body, ContentLength |-> contentLength]

Presigned(signOk, method, input, body, contentLength) ==
    IF ~signOk
    THEN Result(<<>>, ErrSign, NoRet, newObject)
    ELSE Result(<<>>, Nil, HTTPRequest(method, input, body, contentLength), newObject)

\* storage.go querySignHTTPCompleteMultipart; the body is the XML of the params
querySignHTTPCompleteMultipart(o, parts, opt, signOk) ==
    LET input == formatCompleteMultipartUploadInput(o, parts, opt)
    IN  Presigned(signOk, "POST", input, Some(<<"xml", input>>), Unset)

\* storage.go querySignHTTPCreateMultipart
querySignHTTPCreateMultipart(path, opt, signOk) ==
    LET f == formatCreateMultipartUploadInput(path, opt)
    IN  IF f.err # Nil THEN Result(<<>>, f.err, NoRet, newObject)
        ELSE Presigned(signOk, "POST", f.input, Unset, Unset)

\* storage.go querySignHTTPDelete
querySignHTTPDelete(path, opt, signOk) ==
    IF opt.HasMultipartID
    THEN Presigned(signOk, "DELETE", formatAbortMultipartUploadInput(path, opt),
                   Unset, Unset)
    ELSE LET f == formatDeleteObjectInput(path, opt)
         IN  IF f.err # Nil THEN Result(<<>>, f.err, NoRet, newObject)
             ELSE Presigned(signOk, "DELETE", f.input, Unset, Unset)

\* storage.go listMultipart: the page status of a part listing
listMultipart(o, opt) ==
    [maxParts |-> defaultPageSize, key |-> o.ID, uploadId |-> MustGetMultipartID(o),
     partNumberMarker |-> 0,
     expectedBucketOwner |->
         IF opt.HasExceptedBucketOwner THEN opt.ExceptedBucketOwner ELSE ""]

\* storage.go nextPartPage, lines 436-445: the input of one page fetch
nextPartPageInput(input) ==
    LET i0 == [ListPartsInput(input.key, input.uploadId)
                 EXCEPT !.MaxParts = Some(input.maxParts),
                        !.PartNumberMarker = Some(input.partNumberMarker)]
    IN  IF input.expectedBucketOwner # ""
        THEN [i0 EXCEPT !.ExpectedBucketOwner = Some(input.expectedBucketOwner)]
        ELSE i0

\* storage.go querySignHTTPListMultipart: the status takes the bucket owner of
\* the pairs, the input is built without it
querySignHTTPListMultipart(o, opt, signOk) ==
    LET status == [maxParts |-> defaultPageSize, partNumberMarker |-> 0,
                   expectedBucketOwner |->
                       IF opt.HasExceptedBucketOwner THEN opt.ExceptedBucketOwner ELSE ""]
        input  == [ListPartsInput(o.ID, MustGetMultipartID(o))
                     EXCEPT !.MaxParts = Some(status.maxParts),
                            !.PartNumberMarker = Some(status.partNumberMarker)]
    IN  Presigned(signOk, "GET", input, Unset, Unset)

\* storage.go querySignHTTPRead
querySignHTTPRead(path, opt, signOk) ==
    LET f == formatGetObjectInput(path, opt)
    IN  IF f.err # Nil THEN Result(<<>>, f.err, NoRet, newObject)
        ELSE Presigned(signOk, "GET", f.input, Unset, Unset)

\* storage.go querySignHTTPWrite
querySignHTTPWrite(path, size, opt, signOk) ==
    LET f == formatPutObjectInput(path, size, opt)
    IN  IF f.err # Nil THEN Result(<<>>, f.err, NoRet, newObject)
        ELSE Presigned(signOk, "PUT", f.input, Unset, Some(size))

\* storage.go querySignHTTPWriteMultipart
querySignHTTPWriteMultipart(o, size, index, opt, signOk) ==
    LET f == formatUploadPartInput(o, size, index, opt)
    IN  IF f.err # Nil THEN Result(<<>>, f.err, NoRet, newObject)
        ELSE Presigned(signOk, "PUT", f.input, Unset, Some(size))

\* storage.go create
create(path, opt) ==
    LET rp == getAbsPath(path)
    IN  IF opt.HasMultipartID
        THEN [newObject EXCEPT !.Mode = {ModePart}, !.MultipartID = Some(opt.MultipartID),
                               !.ID = rp, !.Path = path]
        ELSE IF opt.HasObjectMode /\ ModeDir \in opt.ObjectMode
        THEN IF ~features.VirtualDir
             THEN newObject
             ELSE [newObject EXCEPT !.Mode = {ModeDir}, !.ID = rp \o <<"/">>, !.Path = path]
        ELSE [newObject EXCEPT !.Mode = {ModeRead}, !.ID = rp, !.Path = path]

----------------------------------------------------------------------------
(* The inputs the operations are called with *)

WorkDirs == {<<"/">>, <<"/", "w", "/">>}
Paths == {<<"a">>, <<"d", "/", "b">>}
Sizes == {<<0, 0>>, <<0, 7>>, <<5, 0>>, <<5, 1>>}
Indexes == {-1, 0, 1, multipartNumberMaximum - 1, multipartNumberMaximum}
ETags == {"e1", "e2"}
UploadIds == {"u1"}

\* a customer key of n bytes
KeyOfLen(n) == [i \in 1..n |-> 7]

Owned == [NoOpt EXCEPT !.HasExceptedBucketOwner = TRUE, !.ExceptedBucketOwner = "owner"]

WithKey(opt, hasAlgorithm, n) ==
    [opt EXCEPT !.HasServerSideEncryptionCustomerAlgorithm = hasAlgorithm,
                !.ServerSideEncryptionCustomerAlgorithm =
                    IF hasAlgorithm THEN "AES256" ELSE "",
                !.ServerSideEncryptionCustomerKey = KeyOfLen(n)]

AsDir(opt) == [opt EXCEPT !.HasObjectMode = TRUE, !.ObjectMode = {ModeDir}]
AsPart(opt) == [opt EXCEPT !.HasMultipartID = TRUE, !.MultipartID = "u1"]

\* every optional field of a write present
Full ==
    [WithKey(Owned, TRUE, customerKeyLength)
       EXCEPT !.HasContentMd5 = TRUE, !.ContentMd5 = "md5",
              !.HasStorageClass = TRUE, !.StorageClass = "STANDARD_IA",
              !.HasServerSideEncryptionBucketKeyEnabled = TRUE,
              !.HasServerSideEncryptionAwsKmsKeyID = TRUE,
              !.ServerSideEncryptionAwsKmsKeyID = "kms",
              !.HasServerSideEncryptionContext = TRUE,
              !.ServerSideEncryptionContext = "ctx",
              !.HasServerSideEncryption = TRUE, !.ServerSideEncryption = "aws:kms",
              !.HasIoCallback = TRUE]

\* bags with and without a customer algorithm, with keys around the valid length
EncOpts ==
    {NoOpt, Owned, WithKey(NoOpt, FALSE, customerKeyLength - 1)}
    \cup {WithKey(NoOpt, TRUE, n) :
             n \in {customerKeyLength - 1, customerKeyLength, customerKeyLength + 1}}

ReadOpts ==
    EncOpts \cup {[NoOpt EXCEPT !.HasOffset = TRUE, !.Offset = 5],
                  [NoOpt EXCEPT !.HasSize = TRUE, !.Size = 10],
                  [Owned EXCEPT !.HasOffset = TRUE, !.Offset = 5,
                                !.HasSize = TRUE, !.Size = 10]}
WriteOpts == EncOpts \cup {Full}
StatOpts ==
    EncOpts \cup {AsDir(NoOpt), AsPart(Owned), AsPart(WithKey(NoOpt, TRUE, 0)),
                  AsDir(WithKey(NoOpt, TRUE, customerKeyLength - 1))}
DeleteOpts == {NoOpt, Owned, AsDir(NoOpt), AsPart(NoOpt), AsPart(Owned), AsPart(AsDir(NoOpt))}
CreateOpts == {NoOpt, AsDir(NoOpt), AsPart(NoOpt)}
CreateDirOpts == {NoOpt, [Owned EXCEPT !.HasStorageClass = TRUE, !.StorageClass = "STANDARD_IA"]}
OwnerOpts == {NoOpt, Owned}

\* the parts a caller hands to complete
PartPool ==
    {[Index |-> 0, Size |-> <<0, 7>>, ETag |-> "e1"],
     [Index |-> 1, Size |-> <<0, 7>>, ETag |-> "e2"],
     [Index |-> 1, Size |-> <<5, 0>>, ETag |-> "e1"],
     [Index |-> multipartNumberMaximum - 1, Size |-> <<0, 0>>, ETag |-> "e2"]}
PartLists == UNION {[1..k -> PartPool] : k \in 0..MaxParts}

\* what the backend may answer to a call, besides success
Answers(api) ==
    {"ok", "AccessDenied",
     IF api \in {"AbortMultipartUpload", "UploadPart", "CompleteMultipartUpload", "ListParts"}
     THEN "NoSuchUpload" ELSE "NoSuchKey"}

----------------------------------------------------------------------------
(* A caller over a backend that may answer anything: one operation at a time, *)
(* called with any arguments, returns, and the caller takes the result.      *)

NoOut == [ETag |-> ""]

\* the keys of the objects the bucket holds when the Storage is constructed
BucketKeys ==
    {<<"a">>, <<"d", "/", "b">>, <<"d", "/", "c">>, <<"w", "/", "a">>,
     <<"w", "/", "d", "/", "b">>}
\* the upload IDs, in the order the backend issues them
IssuedIds == <<"r1", "r2", "r3", "u1">>
\* the multipart uploads other callers have in progress at that time
Uploads0 ==
    {[Key |-> <<"a">>, UploadId |-> "r1"], [Key |-> <<"w", "/", "a">>, UploadId |-> "r2"],
     [Key |-> <<"w", "/", "d", "/", "b">>, UploadId |-> "r3"]}

\* the goroutines that call uploadPart on the session side by side
Callers == {"c1", "c2"}
\* a caller that is in no call
NotRunning ==
    [pc |-> "none", size |-> <<0, 0>>, index |-> 0, opt |-> NoOpt, input |-> NoInput,
     output |-> NoOut, n |-> <<0, 0>>, part |-> NoPart, err |-> Nil]

\* no iterator: the caller has started no listing
NoIterator ==
    [next |-> "none", status |-> [none |-> TRUE], data |-> <<>>, state |-> "none",
     pages |-> 0, calls |-> <<>>, answers |-> <<>>, nexts |-> <<>>, seen |-> <<>>,
     err |-> Nil, held |-> {}, got |-> [prefixes |-> <<>>, contents |-> <<>>]]

Idle == [op |-> "idle", args |-> [none |-> TRUE], calls |-> <<>>, err |-> Nil,
         ret |-> NoRet, o |-> newObject, cancelled |-> FALSE, out |-> NoOut]

\* the operation op, called with args, has returned r; cancelled is whether the
\* caller's context was cancelled while a backend call of it was in flight; out
\* is what the backend's answer carried
Returned(op, args, r, cancelled) ==
    [op |-> op, args |-> args, calls |-> r.calls, err |-> r.err, ret |-> r.ret,
     o |-> r.o, cancelled |-> cancelled /\ r.calls # <<>>, out |-> NoOut]

Init ==
    /\ workDir \in WorkDirs
    /\ features \in [VirtualDir : BOOLEAN, VirtualLink : BOOLEAN]
    /\ obj = newObject
    /\ last = Idle
    /\ store = [objects |-> BucketKeys, uploads |-> Uploads0, parts |-> {}, issued |-> 0]
    /\ page = NoIterator
    /\ held = {}
    /\ running = [c \in Callers |-> NotRunning]

IsSession(o) == o.MultipartID # Unset

Return ==
    /\ last.op # "idle"
    /\ last' = Idle
    /\ UNCHANGED <<workDir, features, obj, store, page, held, running>>

Create ==
    /\ last.op = "idle"
    /\ \E path \in Paths, opt \in CreateOpts :
          LET o == create(path, opt)
          IN  /\ last' = Returned("create", [path |-> path, opt |-> opt],
                                  Result(<<>>, Nil, NoRet, o), FALSE)
              /\ obj' = IF IsSession(o) THEN o ELSE obj
    /\ UNCHANGED <<workDir, features, store, page, held, running>>

CreateMultipart ==
    /\ last.op = "idle"
    /\ \E path \in Paths, opt \in WriteOpts, answer \in Answers("CreateMultipartUpload"),
          cancel \in BOOLEAN, uploadId \in UploadIds :
          LET r == createMultipart(path, opt, answer, cancel, uploadId)
          IN  /\ last' = Returned("createMultipart", [path |-> path, opt |-> opt], r, cancel)
              /\ obj' = IF r.err = Nil THEN r.o ELSE obj
    /\ UNCHANGED <<workDir, features, store, page, held, running>>

CompleteMultipart ==
    /\ last.op = "idle"
    /\ IsSession(obj)
    /\ \E parts \in PartLists, opt \in OwnerOpts,
          answer \in Answers("CompleteMultipartUpload"), cancel \in BOOLEAN :
          LET r == completeMultipart(obj, parts, opt, answer, cancel)
          IN  /\ last' = Returned("completeMultipart",
                                  [o |-> obj, parts |-> parts, opt |-> opt], r, cancel)
              /\ obj' = r.o
    /\ UNCHANGED <<workDir, features, store, page, held, running>>

WriteMultipart ==
    /\ last.op = "idle"
    /\ IsSession(obj)
    /\ \E size \in Sizes, index \in Indexes, opt \in EncOpts,
          answer \in Answers("UploadPart"), cancel \in BOOLEAN, etag \in ETags :
          LET r == writeMultipart(obj, size, index, opt, answer, cancel, etag)
          IN  last' = [Returned("writeMultipart",
                                [o |-> obj, size |-> size, index |-> index, opt |-> opt],
                                r, cancel)
                         EXCEPT !.out = IF r.err = Nil THEN [ETag |-> etag] ELSE NoOut]
    /\ UNCHANGED <<workDir, features, obj, store, page, held, running>>

Read ==
    /\ last.op = "idle"
    /\ \E path \in Paths, opt \in ReadOpts, answer \in Answers("GetObject"),
          cancel \in BOOLEAN :
          last' = Returned("read", [path |-> path, opt |-> opt],
                           read(path, opt, answer, cancel, <<0, 7>>), cancel)
    /\ UNCHANGED <<workDir, features, obj, store, page, held, running>>

Write ==
    /\ last.op = "idle"
    /\ \E path \in Paths, rNil \in BOOLEAN, size \in Sizes, opt \in WriteOpts,
          answer \in Answers("PutObject"), cancel \in BOOLEAN :
          last' = Returned("write",
                           [path |-> path, rNil |-> rNil, size |-> size, opt |-> opt],
                           write(path, rNil, size, opt, answer, cancel), cancel)
    /\ UNCHANGED <<workDir, features, obj, store, page, held, running>>

Stat ==
    /\ last.op = "idle"
    /\ \E path \in Paths, opt \in StatOpts, cancel \in BOOLEAN,
          meta \in {Unset, Some(<<"t">>)} :
          \E answer \in Answers(IF opt.HasMultipartID THEN "ListParts" ELSE "HeadObject") :
             last' = Returned("stat", [path |-> path, opt |-> opt],
                              stat(path, opt, answer, cancel, meta), cancel)
    /\ UNCHANGED <<workDir, features, obj, store, page, held, running>>

\* the context, once cancelled, stays cancelled for the calls that follow
CancelRuns == {<<FALSE, FALSE>>, <<FALSE, TRUE>>, <<TRUE, TRUE>>}

Delete ==
    /\ last.op = "idle"
    /\ \E path \in Paths, opt \in DeleteOpts, cancels \in CancelRuns,
          a2 \in Answers("DeleteObject") :
          \E a1 \in Answers(IF opt.HasMultipartID THEN "AbortMultipartUpload"
                            ELSE "DeleteObject") :
             LET r == delete(path, opt, <<a1, a2>>, cancels)
             IN  last' = [Returned("delete", [path |-> path, opt |-> opt], r, FALSE)
                            EXCEPT !.cancelled = \E i \in 1..Len(r.calls) : cancels[i]]
    /\ UNCHANGED <<workDir, features, obj, store, page, held, running>>

CreateDir ==
    /\ last.op = "idle"
    /\ \E path \in Paths, opt \in CreateDirOpts, answer \in Answers("PutObject"),
          cancel \in BOOLEAN, etag \in ETags :
          last' = Returned("createDir", [path |-> path, opt |-> opt],
                           createDir(path, opt, answer, cancel, etag), cancel)
    /\ UNCHANGED <<workDir, features, obj, store, page, held, running>>

CreateLink ==
    /\ last.op = "idle"
    /\ \E path \in Paths, target \in Paths, answer \in Answers("PutObject"),
          cancel \in BOOLEAN :
          last' = Returned("createLink", [path |-> path, target |-> target, opt |-> NoOpt],
                           createLink(path, target, NoOpt, answer, cancel), cancel)
    /\ UNCHANGED <<workDir, features, obj, store, page, held, running>>

QuerySignHTTPRead ==
    /\ last.op = "idle"
    /\ \E path \in Paths, opt \in ReadOpts, signOk \in BOOLEAN :
          last' = Returned("querySignHTTPRead", [path |-> path, opt |-> opt],
                           querySignHTTPRead(path, opt, signOk), FALSE)
    /\ UNCHANGED <<workDir, features, obj, store, page, held, running>>

QuerySignHTTPWrite ==
    /\ last.op = "idle"
    /\ \E path \in Paths, size \in Sizes, opt \in WriteOpts, signOk \in BOOLEAN :
          last' = Returned("querySignHTTPWrite",
                           [path |-> path, size |-> size, opt |-> opt],
                           querySignHTTPWrite(path, size, opt, signOk), FALSE)
    /\ UNCHANGED <<workDir, features, obj, store, page, held, running>>

QuerySignHTTPDelete ==
    /\ last.op = "idle"
    /\ \E path \in Paths, opt \in DeleteOpts, signOk \in BOOLEAN :
          last' = Returned("querySignHTTPDelete", [path |-> path, opt |-> opt],
                           querySignHTTPDelete(path, opt, signOk), FALSE)
    /\ UNCHANGED <<workDir, features, obj, store, page, held, running>>

QuerySignHTTPCreateMultipart ==
    /\ last.op = "idle"
    /\ \E path \in Paths, opt \in WriteOpts, signOk \in BOOLEAN :
          last' = Returned("querySignHTTPCreateMultipart", [path |-> path, opt |-> opt],
                           querySignHTTPCreateMultipart(path, opt, signOk), FALSE)
    /\ UNCHANGED <<workDir, features, obj, store, page, held, running>>

QuerySignHTTPWriteMultipart ==
    /\ last.op = "idle"
    /\ IsSession(obj)
    /\ \E size \in Sizes, index \in Indexes, opt \in EncOpts, signOk \in BOOLEAN :
          last' = Returned("querySignHTTPWriteMultipart",
                           [o |-> obj, size |-> size, index |-> index, opt |-> opt],
                           querySignHTTPWriteMultipart(obj, size, index, opt, signOk), FALSE)
    /\ UNCHANGED <<workDir, features, obj, store, page, held, running>>

QuerySignHTTPCompleteMultipart ==
    /\ last.op = "idle"
    /\ IsSession(obj)
    /\ \E parts \in PartLists, opt \in OwnerOpts, signOk \in BOOLEAN :
          last' = Returned("querySignHTTPCompleteMultipart",
                           [o |-> obj, parts |-> parts, opt |-> opt],
                           querySignHTTPCompleteMultipart(obj, parts, opt, signOk), FALSE)
    /\ UNCHANGED <<workDir, features, obj, store, page, held, running>>

QuerySignHTTPListMultipart ==
    /\ last.op = "idle"
    /\ IsSession(obj)
    /\ \E opt \in OwnerOpts, signOk \in BOOLEAN :
          last' = Returned("querySignHTTPListMultipart", [o |-> obj, opt |-> opt],
                           querySignHTTPListMultipart(obj, opt, signOk), FALSE)
    /\ UNCHANGED <<workDir, features, obj, store, page, held, running>>

NextOps ==
    \/ Return
    \/ Create
    \/ CreateMultipart
    \/ CompleteMultipart
    \/ WriteMultipart
    \/ Read
    \/ Write
    \/ Stat
    \/ Delete
    \/ CreateDir
    \/ CreateLink
    \/ QuerySignHTTPRead
    \/ QuerySignHTTPWrite
    \/ QuerySignHTTPDelete
    \/ QuerySignHTTPCreateMultipart
    \/ QuerySignHTTPWriteMultipart
    \/ QuerySignHTTPCompleteMultipart
    \/ QuerySignHTTPListMultipart

SpecOps == Init /\ [][NextOps]_vars

----------------------------------------------------------------------------
(* Properties of the operations, under SpecOps *)

InRange(index) == index >= 0 /\ index < multipartNumberMaximum

\* an input without the body the direct call attaches
EraseBody(input) ==
    IF "Body" \in DOMAIN input THEN [input EXCEPT !.Body = Unset] ELSE input

\* C3: complete, direct or presigned, sends one part per caller part, in the
\* caller's order, each with part number index + 1 and the caller's ETag.
PartsAsGiven(mp, parts) ==
    /\ Len(mp) = Len(parts)
    /\ \A i \in 1..Len(parts) :
          mp[i] = [ETag |-> parts[i].ETag, PartNumber |-> parts[i].Index + 1]

C3_CompleteKeepsOrder ==
    /\ last.op = "completeMultipart" =>
          /\ Len(last.calls) = 1
          /\ last.calls[1].input.api = "CompleteMultipartUpload"
          /\ PartsAsGiven(last.calls[1].input.MultipartUpload, last.args.parts)
    /\ (last.op = "querySignHTTPCompleteMultipart" /\ last.err = Nil) =>
          PartsAsGiven(last.ret.input.MultipartUpload, last.args.parts)

\* a complete whose parts were given out of numeric order
C3_Witness ==
    /\ last.op = "completeMultipart"
    /\ last.err = Nil
    /\ Len(last.args.parts) = 2
    /\ last.args.parts[1].Index > last.args.parts[2].Index

\* C4: delete never returns the backend's "not found" (of the abort or of the
\* delete-object call) to its caller.
NotFoundCodes == {"NoSuchKey", "NoSuchUpload", "NotFound"}

C4_DeleteNotFoundIsSuccess ==
    last.op = "delete" =>
        ~(last.err.type = "awserr.RequestFailure" /\ last.err.msg \in NotFoundCodes)

\* C5 as stated: a size over the limit or an index out of [0, 10000) fails with
\* the restriction error and no call; anything else issues exactly one
\* upload-part call and, on success, returns the part.
C5_UploadPartAsStated ==
    last.op = "writeMultipart" =>
        IF Gt64(last.args.size, multipartSizeMaximum) \/ ~InRange(last.args.index)
        THEN /\ last.err.wraps = "ErrRestrictionDissatisfied"
             /\ last.calls = <<>>
        ELSE /\ Len(last.calls) = 1
             /\ last.calls[1].input.api = "UploadPart"
             /\ last.err = Nil =>
                   last.ret.part = [Index |-> last.args.index, Size |-> last.args.size,
                                    ETag |-> last.out.ETag]

\* the customer key of the options is unusable: an algorithm with a key that is
\* not 32 bytes long
BadKey(opt) ==
    /\ opt.HasServerSideEncryptionCustomerAlgorithm
    /\ Len(opt.ServerSideEncryptionCustomerKey) # customerKeyLength

\* C5 amended: the same, where the accepted case also needs a usable customer
\* key; with an unusable one no call is issued and the invalid-key error returned.
C5_UploadPartChecked ==
    last.op = "writeMultipart" =>
        IF Gt64(last.args.size, multipartSizeMaximum) \/ ~InRange(last.args.index)
        THEN /\ last.err.wraps = "ErrRestrictionDissatisfied"
             /\ last.calls = <<>>
        ELSE IF BadKey(last.args.opt)
        THEN /\ last.err = ErrServerSideEncryptionCustomerKeyInvalid
             /\ last.calls = <<>>
        ELSE /\ Len(last.calls) = 1
             /\ last.calls[1].input.api = "UploadPart"
             /\ last.calls[1].input.PartNumber = last.args.index + 1
             /\ last.err = Nil =>
                   /\ last.ret.part = [Index |-> last.args.index, Size |-> last.args.size,
                                       ETag |-> last.out.ETag]
                   /\ last.ret.n = last.args.size

\* an upload of the last admissible index, at the largest admissible size
C5_Witness ==
    /\ last.op = "writeMultipart"
    /\ last.args.index = multipartNumberMaximum - 1
    /\ last.args.size = multipartSizeMaximum
    /\ last.err = Nil
    /\ last.ret.part.ETag = "e2"

\* C6: a write of more than writeSizeMaximum bytes fails with the restriction
\* error and no backend call, whatever its reader and options are.
C6_WriteSizeLimit ==
    (last.op = "write" /\ Gt64(last.args.size, writeSizeMaximum)) =>
        /\ last.err = ErrRestriction("size limit exceeded")
        /\ last.calls = <<>>
        /\ last.ret.n = <<0, 0>>

\* an oversized write whose reader is nil and whose customer key is unusable
C6_Witness ==
    /\ last.op = "write"
    /\ Gt64(last.args.size, writeSizeMaximum)
    /\ last.args.rNil
    /\ BadKey(last.args.opt)
    /\ last.err.wraps = "ErrRestrictionDissatisfied"

\* C7: every backend call carries the caller's context, and an operation whose
\* context is cancelled while its call is in flight returns the cancellation.
C7_ContextReachesEveryCall ==
    /\ \A i \in 1..Len(last.calls) : last.calls[i].ctx
    /\ last.cancelled => last.err = ErrCanceled

\* C8: a successful complete leaves the object readable and no longer a part
\* object; a failed one returns the error and leaves the mode as it was.
C8_CompleteFlipsMode ==
    last.op = "completeMultipart" =>
        IF last.err = Nil
        THEN ModePart \notin obj.Mode /\ ModeRead \in obj.Mode
        ELSE obj.Mode = last.args.o.Mode

\* a complete that succeeded on an object in progress
C8_Witness ==
    /\ last.op = "completeMultipart"
    /\ last.err = Nil
    /\ last.args.o.Mode = {ModePart}
    /\ obj.Mode = {ModeRead}

\* the input of the first backend call the direct operation issues for the
\* arguments of a presigned one, when the backend answers every call with success
DirectCalls(op, a) ==
    CASE op = "querySignHTTPRead" -> read(a.path, a.opt, "ok", FALSE, <<0, 0>>).calls
      [] op = "querySignHTTPWrite" -> write(a.path, FALSE, a.size, a.opt, "ok", FALSE).calls
      [] op = "querySignHTTPDelete" ->
            delete(a.path, a.opt, <<"ok", "ok">>, <<FALSE, FALSE>>).calls
      [] op = "querySignHTTPCreateMultipart" ->
            createMultipart(a.path, a.opt, "ok", FALSE, "u1").calls
      [] op = "querySignHTTPWriteMultipart" ->
            writeMultipart(a.o, a.size, a.index, a.opt, "ok", FALSE, "e1").calls
      [] op = "querySignHTTPCompleteMultipart" ->
            completeMultipart(a.o, a.parts, a.opt, "ok", FALSE).calls
      [] op = "querySignHTTPListMultipart" ->
            <<Call(nextPartPageInput(listMultipart(a.o, a.opt)), TRUE)>>

PresignOps ==
    {"querySignHTTPRead", "querySignHTTPWrite", "querySignHTTPDelete",
     "querySignHTTPCreateMultipart", "querySignHTTPWriteMultipart",
     "querySignHTTPCompleteMultipart", "querySignHTTPListMultipart"}

\* C9: a presigned request is built from the input the direct operation sends
\* for the same arguments (the body the direct call attaches set aside).
C9_PresignedAsDirect ==
    (last.op \in PresignOps /\ last.err = Nil) =>
        LET direct == DirectCalls(last.op, last.args)
        IN  direct # <<>> => last.ret.input = EraseBody(direct[1].input)

KeyOps ==
    {"read", "write", "stat", "createMultipart", "writeMultipart",
     "querySignHTTPRead", "querySignHTTPWrite", "querySignHTTPCreateMultipart",
     "querySignHTTPWriteMultipart"}

\* the operation sent a request to the backend, or returned a presigned one
HasRequest == IF last.op \in PresignOps THEN last.err = Nil ELSE last.calls # <<>>
RequestOf == IF last.op \in PresignOps THEN last.ret.input ELSE last.calls[1].input

\* the three headers of a customer key on a request
CarriesKey(req, algo, key) ==
    /\ "SSECustomerKey" \in DOMAIN req
    /\ req.SSECustomerAlgorithm = <<algo>>
    /\ req.SSECustomerKey = << <<"base64", key>> >>
    /\ req.SSECustomerKeyMD5 = << <<"base64", <<"md5", key>> >> >>

\* C10 as stated: with a customer algorithm, a key that is not 32 bytes long
\* makes the operation fail with the invalid-key error, without a request; a
\* 32-byte key puts the three headers on the request.
C10_KeyAsStated ==
    (last.op \in KeyOps /\ last.args.opt.HasServerSideEncryptionCustomerAlgorithm) =>
        IF BadKey(last.args.opt)
        THEN /\ last.err = ErrServerSideEncryptionCustomerKeyInvalid
             /\ last.calls = <<>>
             /\ ~HasRequest
        ELSE HasRequest =>
                CarriesKey(RequestOf, last.args.opt.ServerSideEncryptionCustomerAlgorithm,
                           last.args.opt.ServerSideEncryptionCustomerKey)

\* the operation gets as far as its customer key: the checks that write,
\* uploadPart and stat make before prepare the key pass, and stat is not asked
\* about a multipart upload
ReachesKey ==
    CASE last.op = "write" ->
            /\ ~Gt64(last.args.size, writeSizeMaximum)
            /\ ~(last.args.rNil /\ last.args.size # <<0, 0>>)
      [] last.op = "writeMultipart" ->
            /\ ~Gt64(last.args.size, multipartSizeMaximum)
            /\ InRange(last.args.index)
      [] last.op = "stat" ->
            /\ ~last.args.opt.HasMultipartID
            /\ ~(last.args.opt.HasObjectMode /\ ModeDir \in last.args.opt.ObjectMode
                 /\ ~features.VirtualDir)
      [] OTHER -> TRUE

\* C10 amended: the same, for an operation that gets as far as its customer key.
C10_KeyChecked ==
    (/\ last.op \in KeyOps
     /\ last.args.opt.HasServerSideEncryptionCustomerAlgorithm
     /\ ReachesKey) =>
        IF BadKey(last.args.opt)
        THEN /\ last.err = ErrServerSideEncryptionCustomerKeyInvalid
             /\ last.calls = <<>>
             /\ ~HasRequest
        ELSE /\ last.op \notin PresignOps => Len(last.calls) = 1
             /\ HasRequest =>
                   CarriesKey(RequestOf,
                              last.args.opt.ServerSideEncryptionCustomerAlgorithm,
                              last.args.opt.ServerSideEncryptionCustomerKey)

\* a stat refused for its customer key of 31 bytes
C10_Witness ==
    /\ last.op = "stat"
    /\ BadKey(last.args.opt)
    /\ Len(last.args.opt.ServerSideEncryptionCustomerKey) = customerKeyLength - 1
    /\ last.err = ErrServerSideEncryptionCustomerKeyInvalid

----------------------------------------------------------------------------
(* The backend's bucket: what it answers to the three listing calls, given   *)
(* the objects, uploads and parts it holds. k is the number of entries the  *)
(* backend puts on the page: at most the page size asked for, and possibly   *)
(* fewer with the listing marked truncated.                                  *)

\* the characters of the keys, in byte order
Alphabet == <<"/", "a", "b", "c", "d", "w">>
CharRank(c) == CHOOSE i \in 1..Len(Alphabet) : Alphabet[i] = c

RECURSIVE LexLess(_, _)
\* key s sorts before key t
LexLess(s, t) ==
    IF t = <<>> THEN FALSE
    ELSE IF s = <<>> THEN TRUE
    ELSE IF Head(s) = Head(t) THEN LexLess(Tail(s), Tail(t))
    ELSE CharRank(Head(s)) < CharRank(Head(t))

IdRank(id) == CHOOSE i \in 1..Len(IssuedIds) : IssuedIds[i] = id

RECURSIVE IndexFrom(_, _, _)
\* the position of the first d in s at or after position i, 0 when there is none
IndexFrom(s, d, i) ==
    IF i > Len(s) THEN 0 ELSE IF s[i] = d THEN i ELSE IndexFrom(s, d, i + 1)

\* what a key is listed as: itself, or the common prefix that ends at the first
\* delimiter after the listing prefix
EntryOf(key, prefix, delimiter) ==
    LET cut == IF delimiter = Unset THEN 0
               ELSE IndexFrom(key, delimiter[1], Len(prefix) + 1)
    IN  IF cut = 0 THEN [kind |-> "object", Key |-> key]
        ELSE [kind |-> "prefix", Key |-> SubSeq(key, 1, cut)]

RECURSIVE SortEntries(_)
SortEntries(S) ==
    IF S = {} THEN <<>>
    ELSE LET m == CHOOSE x \in S : \A y \in S : y = x \/ LexLess(x.Key, y.Key)
         IN  <<m>> \o SortEntries(S \ {m})

UploadLess(a, b) ==
    \/ LexLess(a.Key, b.Key)
    \/ a.Key = b.Key /\ IdRank(a.UploadId) < IdRank(b.UploadId)

RECURSIVE SortUploads(_)
SortUploads(S) ==
    IF S = {} THEN <<>>
    ELSE LET m == CHOOSE x \in S : \A y \in S : y = x \/ UploadLess(x, y)
         IN  <<m>> \o SortUploads(S \ {m})

RECURSIVE SortByPartNumber(_)
SortByPartNumber(S) ==
    IF S = {} THEN <<>>
    ELSE LET m == CHOOSE x \in S : \A y \in S : x.PartNumber <= y.PartNumber
         IN  <<m>> \o SortByPartNumber(S \ {m})

\* the first k entries of a listing, and whether more are left
FirstK(entries, k) ==
    LET n == IF k < Len(entries) THEN k ELSE Len(entries)
    IN  [got |-> SubSeq(entries, 1, n), more |-> n < Len(entries)]

\* a continuation token is opaque to the caller; this backend's token carries the
\* key of the last entry it returned. The empty string is <<>>.
Token(key) == <<key>>

ListObjectsV2(listInput, k) ==
    LET prefix == listInput.Prefix[1]
        all    == SortEntries({EntryOf(key, prefix, listInput.Delimiter) :
                                  key \in {x \in store.objects : HasPrefix(x, prefix)}})
        after  == IF listInput.ContinuationToken = Unset THEN all
                  ELSE SelectSeq(all, LAMBDA e :
                                   LexLess(listInput.ContinuationToken[1][1], e.Key))
        p      == FirstK(after, IF k < listInput.MaxKeys[1] THEN k ELSE listInput.MaxKeys[1])
        pre    == SelectSeq(p.got, LAMBDA e : e.kind = "prefix")
        con    == SelectSeq(p.got, LAMBDA e : e.kind = "object")
    IN  [CommonPrefixes |-> [i \in 1..Len(pre) |-> [Prefix |-> pre[i].Key]],
         Contents |-> [i \in 1..Len(con) |-> [Key |-> con[i].Key, ETag |-> Some("etag")]],
         IsTruncated |-> p.more,
         NextContinuationToken |->
             IF p.more THEN Some(Token(p.got[Len(p.got)].Key)) ELSE Unset]

ListMultipartUploads(listInput, k) ==
    LET km    == listInput.KeyMarker[1]
        im    == listInput.UploadIdMarker[1]
        all   == SortUploads({u \in store.uploads : HasPrefix(u.Key, listInput.Prefix[1])})
        after == IF km = <<>> THEN all
                 ELSE SelectSeq(all, LAMBDA u :
                        \/ LexLess(km, u.Key)
                        \/ u.Key = km /\ im # "" /\ IdRank(im) < IdRank(u.UploadId))
        p     == FirstK(after, IF k < listInput.MaxUploads[1] THEN k
                               ELSE listInput.MaxUploads[1])
    IN  [Uploads |-> p.got, IsTruncated |-> p.more,
         KeyMarker |-> listInput.KeyMarker, UploadIdMarker |-> listInput.UploadIdMarker,
         NextKeyMarker |-> IF p.more THEN Some(p.got[Len(p.got)].Key) ELSE Unset,
         NextUploadIdMarker |->
             IF p.more THEN Some(p.got[Len(p.got)].UploadId) ELSE Unset]

ListParts(listInput, k) ==
    LET all == SortByPartNumber({q \in store.parts :
                                   /\ q.Key = listInput.Key
                                   /\ q.UploadId = listInput.UploadId
                                   /\ q.PartNumber > listInput.PartNumberMarker[1]})
        p   == FirstK(all, IF k < listInput.MaxParts[1] THEN k ELSE listInput.MaxParts[1])
    IN  [Parts |-> [i \in 1..Len(p.got) |->
                       [PartNumber |-> p.got[i].PartNumber, Size |-> p.got[i].Size,
                        ETag |-> Some(p.got[i].ETag)]],
         IsTruncated |-> p.more,
         NextPartNumberMarker |->
             IF p.got = <<>> THEN listInput.PartNumberMarker
             ELSE Some(p.got[Len(p.got)].PartNumber)]

\* does the bucket hold the upload session of this key and ID
Uploading(key, uploadId) == [Key |-> key, UploadId |-> uploadId] \in store.uploads

----------------------------------------------------------------------------
(* Page Iterators: storage.go list, listMultipart and the four page functions *)

ListModePrefix == {"prefix"}
ListModeDir == {"dir"}
ListModePart == {"part"}

ListModeInvalidError(mode) ==
    [type |-> "services.ListModeInvalidError", msg |-> mode, wraps |-> "none"]

\* the sentinel a page function returns with the last page
IterateDone == [type |-> "errors.errorString", msg |-> "iterate is done", wraps |-> "none"]

\* aws.StringValue, aws.Int64Value: the value a pointer holds, the zero value for nil
StringValue(p, empty) == IF p = Unset THEN empty ELSE p[1]
Int64Value(p) == IF p = Unset THEN 0 ELSE p[1]

\* storage.go list: the page function and the page status of an object listing
list(path, opt) ==
    LET input == [maxKeys |-> defaultPageSize, prefix |-> getAbsPath(path),
                  delimiter |-> "", continuationToken |-> <<>>,
                  keyMarker |-> <<>>, uploadIdMarker |-> "",
                  expectedBucketOwner |->
                      IF opt.HasExceptedBucketOwner THEN opt.ExceptedBucketOwner ELSE ""]
        mode  == IF opt.HasListMode THEN opt.ListMode ELSE ListModePrefix
    IN  IF "part" \in mode
        THEN [err |-> Nil, next |-> "nextPartObjectPageByPrefix", input |-> input]
        ELSE IF "dir" \in mode
        THEN [err |-> Nil, next |-> "nextObjectPageByDir",
              input |-> [input EXCEPT !.delimiter = "/"]]
        ELSE IF "prefix" \in mode
        THEN [err |-> Nil, next |-> "nextObjectPageByPrefix", input |-> input]
        ELSE [err |-> ListModeInvalidError(mode), next |-> "none", input |-> input]

\* the token of the page status as the request carries it: nil for the empty one
getServiceContinuationToken(input) ==
    IF input.continuationToken = <<>> THEN Unset ELSE Some(input.continuationToken)

\* what one call of a page function leaves: the backend calls issued, the error
\* returned, the page status and the page's buffer after it, and the backend's
\* truncation flag when it answered
Fetched(calls, err, status, data, out) ==
    [calls |-> calls, err |-> err, status |-> status, data |-> data, out |-> out]

\* the cursor the backend issues with an answer: the next continuation token,
\* the next key marker and next upload-ID marker, or the next part-number
\* marker, read as the page functions read them
NextCursorOf(output) ==
    IF "NextContinuationToken" \in DOMAIN output
    THEN [continuationToken |-> StringValue(output.NextContinuationToken, <<>>)]
    ELSE IF "NextKeyMarker" \in DOMAIN output
    THEN [keyMarker |-> StringValue(output.NextKeyMarker, <<>>),
          uploadIdMarker |-> StringValue(output.NextUploadIdMarker, "")]
    ELSE [partNumberMarker |-> Int64Value(output.NextPartNumberMarker)]

\* the keys of an answer, as the backend returned them: those of its common
\* prefixes, and those of its contents
KeysReturned(output) ==
    IF "Contents" \in DOMAIN output
    THEN [prefixes |-> [i \in 1..Len(output.CommonPrefixes) |->
                           output.CommonPrefixes[i].Prefix],
          contents |-> [i \in 1..Len(output.Contents) |-> output.Contents[i].Key]]
    ELSE [prefixes |-> <<>>, contents |-> <<>>]

NoAnswer ==
    [answered |-> FALSE, IsTruncated |-> FALSE, next |-> [none |-> TRUE],
     got |-> [prefixes |-> <<>>, contents |-> <<>>]]
Answered(output) ==
    [answered |-> TRUE, IsTruncated |-> output.IsTruncated, next |-> NextCursorOf(output),
     got |-> KeysReturned(output)]

ListObjectsV2Input(input) ==
    [api |-> "ListObjectsV2", Bucket |-> name, Delimiter |-> Unset,
     MaxKeys |-> Some(input.maxKeys),
     ContinuationToken |-> getServiceContinuationToken(input),
     Prefix |-> Some(input.prefix),
     ExpectedBucketOwner |->
         IF input.expectedBucketOwner # "" THEN Some(input.expectedBucketOwner) ELSE Unset]

\* storage.go lines 334-340: a directory entry per common prefix
DirObject(v) ==
    [newObject EXCEPT !.ID = v.Prefix, !.Path = getRelPath(v.Prefix), !.Mode = @ \cup {ModeDir}]

\* utils.go formatFileObject
formatFileObject(v) ==
    [newObject EXCEPT !.ID = v.Key, !.Path = getRelPath(v.Key),
                      !.Mode = @ \cup {ModeRead}, !.Etag = v.ETag]

\* storage.go lines 413-421: a part-mode entry per upload in progress
PartObject(v) ==
    [newObject EXCEPT !.ID = v.Key, !.Path = getRelPath(v.Key),
                      !.Mode = @ \cup {ModePart}, !.MultipartID = Some(v.UploadId)]

Map(s, F(_)) == [i \in 1..Len(s) |-> F(s[i])]

\* the directory listing that appends the contents before the common prefixes
nextObjectPageByDirFilesFirst(input, data, answer, cancel, k) ==
    LET listInput == [ListObjectsV2Input(input) EXCEPT !.Delimiter = Some(input.delimiter)]
        call      == Call(listInput, TRUE)
        err       == ErrOf(Outcome(call, answer, cancel))
        output    == ListObjectsV2(listInput, k)
        data1     == data \o Map(output.Contents, formatFileObject)
                          \o Map(output.CommonPrefixes, DirObject)
    IN  IF err # Nil THEN Fetched(<<call>>, err, input, data, NoAnswer)
        ELSE IF ~output.IsTruncated
        THEN Fetched(<<call>>, IterateDone, input, data1, Answered(output))
        ELSE Fetched(<<call>>, Nil,
                     [input EXCEPT !.continuationToken = output.NextContinuationToken[1]],
                     data1, Answered(output))

\* storage.go nextObjectPageByDir
nextObjectPageByDir(input, data, answer, cancel, k) ==
    LET listInput == [ListObjectsV2Input(input) EXCEPT !.Delimiter = Some(input.delimiter)]
        call      == Call(listInput, TRUE)
        err       == ErrOf(Outcome(call, answer, cancel))
        output    == ListObjectsV2(listInput, k)
        data1     == data \o Map(output.CommonPrefixes, DirObject)
                          \o Map(output.Contents, formatFileObject)
    IN  IF err # Nil THEN Fetched(<<call>>, err, input, data, NoAnswer)
        ELSE IF ~output.IsTruncated
        THEN Fetched(<<call>>, IterateDone, input, data1, Answered(output))
        ELSE Fetched(<<call>>, Nil,
                     [input EXCEPT !.continuationToken = output.NextContinuationToken[1]],
                     data1, Answered(output))

\* the page function that returns nil with the last page
nextObjectPageByPrefixNeverDone(input, data, answer, cancel, k) ==
    LET listInput == ListObjectsV2Input(input)
        call      == Call(listInput, TRUE)
        err       == ErrOf(Outcome(call, answer, cancel))
        output    == ListObjectsV2(listInput, k)
        data1     == data \o Map(output.Contents, formatFileObject)
    IN  IF err # Nil THEN Fetched(<<call>>, err, input, data, NoAnswer)
        ELSE Fetched(<<call>>, Nil,
                     [input EXCEPT !.continuationToken =
                                       StringValue(output.NextContinuationToken, <<>>)],
                     data1, Answered(output))

\* storage.go nextObjectPageByPrefix
nextObjectPageByPrefix(input, data, answer, cancel, k) ==
    LET listInput == ListObjectsV2Input(input)
        call      == Call(listInput, TRUE)
        err       == ErrOf(Outcome(call, answer, cancel))
        output    == ListObjectsV2(listInput, k)
        data1     == data \o Map(output.Contents, formatFileObject)
    IN  IF err # Nil THEN Fetched(<<call>>, err, input, data, NoAnswer)
        ELSE IF ~output.IsTruncated
        THEN Fetched(<<call>>, IterateDone, input, data1, Answered(output))
        ELSE Fetched(<<call>>, Nil,
                     [input EXCEPT !.continuationToken =
                                       StringValue(output.NextContinuationToken, <<>>)],
                     data1, Answered(output))

\* storage.go nextPartObjectPageByPrefix
nextPartObjectPageByPrefix(input, data, answer, cancel, k) ==
    LET listInput == [api |-> "ListMultipartUploads", Bucket |-> name,
                      KeyMarker |-> Some(input.keyMarker),
                      MaxUploads |-> Some(input.maxKeys),
                      Prefix |-> Some(input.prefix),
                      UploadIdMarker |-> Some(input.uploadIdMarker),
                      ExpectedBucketOwner |->
                          IF input.expectedBucketOwner # ""
                          THEN Some(input.expectedBucketOwner) ELSE Unset]
        call      == Call(listInput, TRUE)
        err       == ErrOf(Outcome(call, answer, cancel))
        output    == ListMultipartUploads(listInput, k)
        data1     == data \o Map(output.Uploads, PartObject)
    IN  IF err # Nil THEN Fetched(<<call>>, err, input, data, NoAnswer)
        ELSE IF ~output.IsTruncated
        THEN Fetched(<<call>>, IterateDone, input, data1, Answered(output))
        ELSE Fetched(<<call>>, Nil,
                     [input EXCEPT !.keyMarker = StringValue(output.KeyMarker, <<>>),
                                   !.uploadIdMarker = StringValue(output.UploadIdMarker, "")],
                     data1, Answered(output))

\* the part of a listing reported under its wire number
PartOneBased(v) ==
    [Index |-> v.PartNumber, Size |-> v.Size, ETag |-> StringValue(v.ETag, "")]

\* storage.go lines 452-462: the Part of a listed part
PartOf(v) ==
    [Index |-> v.PartNumber - 1, Size |-> v.Size, ETag |-> StringValue(v.ETag, "")]

\* the part listing that reports wire numbers as indices
nextPartPageOneBased(input, data, answer, cancel, k) ==
    LET listInput == nextPartPageInput(input)
        call      == Call(listInput, TRUE)
        err       == ErrOf(Outcome(call, answer, cancel))
        output    == ListParts(listInput, k)
        data1     == data \o Map(output.Parts, PartOneBased)
    IN  IF err # Nil THEN Fetched(<<call>>, err, input, data, NoAnswer)
        ELSE IF ~output.IsTruncated
        THEN Fetched(<<call>>, IterateDone, input, data1, Answered(output))
        ELSE Fetched(<<call>>, Nil,
                     [input EXCEPT !.partNumberMarker =
                                       Int64Value(output.NextPartNumberMarker)],
                     data1, Answered(output))

\* the part listing that advances its marker before it looks at the error
nextPartPageMarkerFirst(input, data, answer, cancel, k) ==
    LET listInput == nextPartPageInput(input)
        call      == Call(listInput, TRUE)
        err       == ErrOf(Outcome(call, answer, cancel))
        output    == ListParts(listInput, k)
        data1     == data \o Map(output.Parts, PartOf)
        input1    == [input EXCEPT !.partNumberMarker = @ + input.maxParts]
    IN  IF err # Nil THEN Fetched(<<call>>, err, input1, data, NoAnswer)
        ELSE IF ~output.IsTruncated
        THEN Fetched(<<call>>, IterateDone, input, data1, Answered(output))
        ELSE Fetched(<<call>>, Nil,
                     [input EXCEPT !.partNumberMarker =
                                       Int64Value(output.NextPartNumberMarker)],
                     data1, Answered(output))

\* storage.go nextPartPage
nextPartPage(input, data, answer, cancel, k) ==
    LET listInput == nextPartPageInput(input)
        call      == Call(listInput, TRUE)
        err       == ErrOf(Outcome(call, answer, cancel))
        output    == ListParts(listInput, k)
        data1     == data \o Map(output.Parts, PartOf)
    IN  IF err # Nil THEN Fetched(<<call>>, err, input, data, NoAnswer)
        ELSE IF ~output.IsTruncated
        THEN Fetched(<<call>>, IterateDone, input, data1, Answered(output))
        ELSE Fetched(<<call>>, Nil,
                     [input EXCEPT !.partNumberMarker =
                                       Int64Value(output.NextPartNumberMarker)],
                     data1, Answered(output))

\* NewObjectIterator, NewPartIterator: an iterator that has fetched nothing
NewIterator(nextFn, input) ==
    [NoIterator EXCEPT !.next = nextFn, !.status = input, !.state = "Ready"]

----------------------------------------------------------------------------
(* A caller that lists the bucket, page by page, while it runs a multipart    *)
(* session on it: the backend keeps what the calls do to the bucket.          *)

\* most page fetches of one iterator
MaxPages == 3
ListPaths == {<<>>, <<"d", "/">>}
ListOpts ==
    {[HasListMode |-> FALSE, ListMode |-> {}, HasExceptedBucketOwner |-> FALSE,
      ExceptedBucketOwner |-> ""],
     [HasListMode |-> TRUE, ListMode |-> ListModeDir, HasExceptedBucketOwner |-> FALSE,
      ExceptedBucketOwner |-> ""],
     [HasListMode |-> TRUE, ListMode |-> ListModePart, HasExceptedBucketOwner |-> TRUE,
      ExceptedBucketOwner |-> "owner"],
     [HasListMode |-> TRUE, ListMode |-> {}, HasExceptedBucketOwner |-> FALSE,
      ExceptedBucketOwner |-> ""]}
\* the page lengths the backend chooses among: short pages, and all that is asked for
PageLens == {1, 2, defaultPageSize}
\* the index and size of the uploads to the session: every index at one size,
\* and index 0 also at the greatest size, to upload a part a second time
PartUploads ==
    {<<index, <<0, 7>>>> : index \in Indexes} \cup {<<0, multipartSizeMaximum>>}
\* how a call may run: the backend's answer, and whether the caller's context is
\* cancelled while the call is in flight
Runs == {<<"ok", FALSE>>, <<"AccessDenied", FALSE>>, <<"ok", TRUE>>}
\* a call on an upload session the bucket does not hold is answered NoSuchUpload
SessionRuns(key, uploadId) ==
    IF Uploading(key, uploadId) THEN Runs ELSE {<<"NoSuchUpload", FALSE>>}
\* the page lengths to choose among for a call that runs so: a failed call has no page
Lens(run) == IF run = <<"ok", FALSE>> THEN PageLens ELSE {1}

InitList ==
    /\ Init
    /\ features = [VirtualDir |-> FALSE, VirtualLink |-> FALSE]

\* createMultipart on the bucket: the backend issues the next upload ID
CreateMultipartOnStore ==
    /\ Cardinality(Uploads0) + store.issued < Len(IssuedIds)
    /\ \E path \in Paths, opt \in OwnerOpts, run \in Runs :
          LET id == IssuedIds[Cardinality(Uploads0) + store.issued + 1]
              r  == createMultipart(path, opt, run[1], run[2], id)
          IN  IF r.err # Nil
              THEN UNCHANGED <<obj, store, held>>
              ELSE /\ obj' = r.o
                   /\ store' = [store EXCEPT
                                  !.uploads = @ \cup {[Key |-> r.calls[1].input.Key,
                                                       UploadId |-> id]},
                                  !.issued = @ + 1]
                   /\ held' = {}
    /\ UNCHANGED <<workDir, features, last, page, running>>

\* writeMultipart on the bucket: a part uploaded again replaces the part of its
\* number; the caller keeps the Part returned, under the index it asked for
WriteMultipartOnStore ==
    /\ IsSession(obj)
    /\ \E up \in PartUploads, run \in SessionRuns(obj.ID, MustGetMultipartID(obj)) :
          LET index == up[1]
              size  == up[2]
              r  == writeMultipart(obj, size, index, NoOpt, run[1], run[2], "e1")
              in == r.calls[1].input
              h  == {p \in held : p.index # index} \cup {[index |-> index, part |-> r.ret.part]}
          IN  IF r.err # Nil
              THEN UNCHANGED <<store, held>>
              ELSE /\ Cardinality(h) <= MaxParts
                   /\ held' = h
                   /\ store' = [store EXCEPT
                                  !.parts = {q \in @ : ~ /\ q.Key = in.Key
                                                         /\ q.UploadId = in.UploadId
                                                         /\ q.PartNumber = in.PartNumber}
                                            \cup {[Key |-> in.Key, UploadId |-> in.UploadId,
                                                   PartNumber |-> in.PartNumber,
                                                   Size |-> in.ContentLength[1],
                                                   ETag |-> "e1"]}]
    /\ UNCHANGED <<workDir, features, obj, last, page, running>>

\* delete of the session on the bucket: the abort ends the upload and drops its
\* parts, and the DeleteObject that follows it removes the object of the key
DeleteOnStore ==
    /\ IsSession(obj)
    /\ \E a1 \in {run[1] : run \in SessionRuns(obj.ID, MustGetMultipartID(obj))},
          a2 \in {run[1] : run \in Runs} :
          LET opt == [NoOpt EXCEPT !.HasMultipartID = TRUE,
                                   !.MultipartID = MustGetMultipartID(obj)]
              r   == delete(obj.Path, opt, <<a1, a2>>, <<FALSE, FALSE>>)
              s1  == IF a1 = "ok"
                     THEN [store EXCEPT
                             !.uploads = @ \ {[Key |-> r.calls[1].input.Key,
                                               UploadId |-> r.calls[1].input.UploadId]},
                             !.parts = {q \in @ : ~ /\ q.Key = r.calls[1].input.Key
                                                    /\ q.UploadId = r.calls[1].input.UploadId}]
                     ELSE store
          IN  store' = IF Len(r.calls) = 2 /\ a2 = "ok"
                       THEN [s1 EXCEPT !.objects = @ \ {r.calls[2].input.Key}]
                       ELSE s1
    /\ UNCHANGED <<workDir, features, obj, last, page, held, running>>

\* list: the caller starts an object listing
List ==
    /\ \E path \in ListPaths, opt \in ListOpts :
          LET r == list(path, opt)
          IN  page' = IF r.err # Nil THEN page ELSE NewIterator(r.next, r.input)
    /\ UNCHANGED <<workDir, features, obj, last, store, held, running>>

\* listMultipart: the caller starts a listing of the parts of its session
ListMultipart ==
    /\ IsSession(obj)
    /\ \E opt \in OwnerOpts :
          page' = [NewIterator("nextPartPage", listMultipart(obj, opt)) EXCEPT !.held = held]
    /\ UNCHANGED <<workDir, features, obj, last, store, held, running>>

\* the iterator takes what its page function returned: a page, the last page,
\* or the error that ends the iteration
Pull(r) ==
    LET ok == r.err \in {Nil, IterateDone}
    IN  page' = [page EXCEPT
                   !.status = r.status, !.data = r.data, !.err = r.err,
                   !.calls = @ \o r.calls,
                   !.state = IF r.err = Nil THEN "HasPage"
                             ELSE IF r.err = IterateDone THEN "Done" ELSE "Failed",
                   !.pages = IF ok THEN @ + 1 ELSE @,
                   !.answers = IF r.out.answered THEN Append(@, r.out.IsTruncated) ELSE @,
                   !.nexts = IF r.out.answered THEN Append(@, r.out.next) ELSE @,
                   !.got = r.out.got,
                   !.seen = IF ok THEN @ \o r.data ELSE @]

CanPull(nextFn) ==
    /\ page.next = nextFn
    /\ page.state \in {"Ready", "HasPage"}
    /\ Len(page.calls) < MaxPages

NextObjectPageByDir ==
    /\ CanPull("nextObjectPageByDir")
    /\ \E run \in Runs :
          \E k \in Lens(run) :
             Pull(nextObjectPageByDir(page.status, <<>>, run[1], run[2], k))
    /\ UNCHANGED <<workDir, features, obj, last, store, held, running>>

NextObjectPageByPrefix ==
    /\ CanPull("nextObjectPageByPrefix")
    /\ \E run \in Runs :
          \E k \in Lens(run) :
             Pull(nextObjectPageByPrefix(page.status, <<>>, run[1], run[2], k))
    /\ UNCHANGED <<workDir, features, obj, last, store, held, running>>

NextPartObjectPageByPrefix ==
    /\ CanPull("nextPartObjectPageByPrefix")
    /\ \E run \in Runs :
          \E k \in Lens(run) :
             Pull(nextPartObjectPageByPrefix(page.status, <<>>, run[1], run[2], k))
    /\ UNCHANGED <<workDir, features, obj, last, store, held, running>>

NextPartPage ==
    /\ CanPull("nextPartPage")
    /\ \E run \in SessionRuns(page.status.key, page.status.uploadId) :
          \E k \in Lens(run) :
             Pull(nextPartPage(page.status, <<>>, run[1], run[2], k))
    /\ UNCHANGED <<workDir, features, obj, last, store, held, running>>

NextList ==
    \/ CreateMultipartOnStore
    \/ WriteMultipartOnStore
    \/ DeleteOnStore
    \/ List
    \/ ListMultipart
    \/ NextObjectPageByDir
    \/ NextObjectPageByPrefix
    \/ NextPartObjectPageByPrefix
    \/ NextPartPage

SpecList == InitList /\ [][NextList]_vars

----------------------------------------------------------------------------
(* Properties of the listings, under SpecList *)

\* C1: in each of the four listings, when the backend answers the first page
\* request "not truncated" the iterator has yielded exactly one page from one
\* listing call and reports IterateDone, no error; when it answers the first
\* "truncated" and the second "not truncated" the iterator has yielded exactly
\* two pages from exactly two listing calls and reports IterateDone, no error;
\* and after a "truncated" answer it is not done.
C1_PaginationTerminates ==
    /\ page.answers = <<FALSE>> =>
          /\ page.state = "Done" /\ page.err = IterateDone
          /\ page.pages = 1 /\ Len(page.calls) = 1
    /\ page.answers = <<TRUE, FALSE>> =>
          /\ page.state = "Done" /\ page.err = IterateDone
          /\ page.pages = 2 /\ Len(page.calls) = 2
    /\ (page.answers = <<TRUE>> /\ page.state # "Failed") =>
          /\ page.state = "HasPage" /\ page.err = Nil /\ page.pages = 1

\* a listing of two pages, the second the last, has ended
C1_Witness ==
    /\ page.answers = <<TRUE, FALSE>>
    /\ page.state = "Done"
    /\ Len(page.seen) >= 2

\* C2: every Part a successful uploadPart returned carries the index it was
\* called with, an index of [0, 9999]; the bucket holds exactly one part of
\* the session under the wire number index + 1; and a listing of the parts of
\* the session, started after the upload and run to its end, yields exactly
\* one part with that index.
C2_UploadThenList ==
    /\ \A p \in held :
          /\ p.part.Index = p.index
          /\ p.index \in 0..(multipartNumberMaximum - 1)
          /\ Uploading(obj.ID, MustGetMultipartID(obj)) =>
                Cardinality({q \in store.parts :
                               /\ q.Key = obj.ID
                               /\ q.UploadId = MustGetMultipartID(obj)
                               /\ q.PartNumber = p.index + 1}) = 1
    /\ (page.next = "nextPartPage" /\ page.state = "Done") =>
          \A p \in page.held :
             Cardinality({j \in 1..Len(page.seen) : page.seen[j].Index = p.index}) = 1

\* the parts uploaded with the least and the greatest index are listed on two
\* pages
C2_Witness ==
    /\ page.next = "nextPartPage"
    /\ page.state = "Done"
    /\ page.answers = <<TRUE, FALSE>>
    /\ {p.index : p \in page.held} = {0, multipartNumberMaximum - 1}

----------------------------------------------------------------------------
(* The boundary error mapping: utils.go formatError, Storage.formatError     *)

\* the error types that implement services.InternalError: the error codes and
\* the error structs the storage framework and this service define. The errors
\* of fmt, errors and the SDK do not.
InternalErrorTypes ==
    {"services.ErrorCode", "services.PairUnsupportedError",
     "types.OperationNotImplementedError", "services.StorageError"}

\* fmt.Errorf("%w: %v", sentinel, err): wraps the sentinel, and holds of err
\* its text only
WrapWithText(sentinel, err) ==
    [type |-> "fmt.wrapError", msg |-> err.msg, wraps |-> sentinel]

\* NotFound treated as any other code
formatErrorOnlyNoSuchKey(err) ==
    IF err.type \in InternalErrorTypes THEN err
    ELSE IF err.type # "awserr.RequestFailure" THEN WrapWithText("ErrUnexpected", err)
    ELSE IF err.msg \in {"NoSuchKey"} THEN WrapWithText("ErrObjectNotExist", err)
    ELSE IF err.msg = "AccessDenied" THEN WrapWithText("ErrPermissionDenied", err)
    ELSE WrapWithText("ErrUnexpected", err)

\* utils.go formatError
formatError(err) ==
    IF err.type \in InternalErrorTypes THEN err
    ELSE IF err.type # "awserr.RequestFailure" THEN WrapWithText("ErrUnexpected", err)
    ELSE IF err.msg \in {"NoSuchKey", "NotFound"} THEN WrapWithText("ErrObjectNotExist", err)
    ELSE IF err.msg = "AccessDenied" THEN WrapWithText("ErrPermissionDenied", err)
    ELSE WrapWithText("ErrUnexpected", err)

\* utils.go Storage.formatError
StorageFormatError(op, err, path) ==
    IF err = Nil THEN Nil
    ELSE [type |-> "services.StorageError", Op |-> op, Err |-> formatError(err),
          Path |-> path]

----------------------------------------------------------------------------
(* The functions of utils.go, each applied to any argument                   *)

\* longest path, in characters
MaxLen == 3
\* greatest offset and size of a read
MaxOffset == 2

PathChars == {"/", "a", "w"}
Strings == UNION {[1..k -> PathChars] : k \in 0..MaxLen}
\* work dirs: the default, directories, and strings a configuration may carry
\* that lack the leading or the trailing separator
FnWorkDirs ==
    {<<"/">>, <<"/", "w", "/">>, <<"/", "a">>, <<"w", "/">>, <<"/", "/", "w">>, <<>>}

\* the errors an operation hands to the boundary
Errors ==
    {Nil, ErrCanceled, ErrSign, ErrReaderNil, ErrServerSideEncryptionCustomerKeyInvalid,
     ErrRestriction("size limit exceeded"),
     ErrRestriction("multipart number limit exceeded"),
     PairUnsupportedError("object_mode"), OperationNotImplementedError("create_dir")}
    \cup {RequestFailure(code) :
             code \in {"NoSuchKey", "NotFound", "AccessDenied", "NoSuchUpload",
                       "InternalError"}}

\* the function fn, applied to args, returned ret
Applied(fn, args, ret) == [op |-> fn, args |-> args, ret |-> ret]

InitFn ==
    /\ workDir \in FnWorkDirs
    /\ features = [VirtualDir |-> FALSE, VirtualLink |-> FALSE]
    /\ obj = newObject
    /\ last = Idle
    /\ store = [objects |-> BucketKeys, uploads |-> Uploads0, parts |-> {}, issued |-> 0]
    /\ page = NoIterator
    /\ held = {}
    /\ running = [c \in Callers |-> NotRunning]

GetAbsPath ==
    /\ \E path \in Strings :
          last' = Applied("getAbsPath", [path |-> path], [path |-> getAbsPath(path)])
    /\ UNCHANGED <<workDir, features, obj, store, page, held, running>>

\* getRelPath of any key, and of the key getAbsPath has just returned
GetRelPath ==
    /\ \E key \in Strings \cup (IF last.op = "getAbsPath" THEN {last.ret.path} ELSE {}) :
          last' = Applied("getRelPath",
                          [path |-> key,
                           of |-> IF last.op = "getAbsPath" /\ key = last.ret.path
                                  THEN Some(last.args.path) ELSE Unset],
                          [path |-> getRelPath(key)])
    /\ UNCHANGED <<workDir, features, obj, store, page, held, running>>

FormatGetObjectInput ==
    /\ \E hasOffset \in BOOLEAN, hasSize \in BOOLEAN, offset \in 0..MaxOffset,
          size \in 0..MaxOffset :
          LET opt == [NoOpt EXCEPT !.HasOffset = hasOffset,
                                   !.Offset = IF hasOffset THEN offset ELSE 0,
                                   !.HasSize = hasSize,
                                   !.Size = IF hasSize THEN size ELSE 0]
          IN  last' = Applied("formatGetObjectInput", [path |-> <<"a">>, opt |-> opt],
                              formatGetObjectInput(<<"a">>, opt))
    /\ UNCHANGED <<workDir, features, obj, store, page, held, running>>

FormatError ==
    /\ \E op \in {"write", "write_multipart"}, err \in Errors :
          last' = Applied("formatError", [op |-> op, err |-> err, path |-> <<"a">>],
                          [err |-> StorageFormatError(op, err, <<"a">>)])
    /\ UNCHANGED <<workDir, features, obj, store, page, held, running>>

NextFn ==
    \/ GetAbsPath
    \/ GetRelPath
    \/ FormatGetObjectInput
    \/ FormatError

SpecFn == InitFn /\ [][NextFn]_vars

----------------------------------------------------------------------------
(* Properties of the functions, under SpecFn *)

\* the work dir with one leading separator stripped
RootPrefix == TrimPrefix(workDir, <<"/">>)

\* C11: for every path p and every work dir, getRelPath(getAbsPath(p)) = p;
\* getRelPath always returns a path, and returns its input unchanged when the
\* key does not start with the work dir stripped of one leading separator.
C11_PathRoundTrip ==
    /\ last.op = "getAbsPath" =>
          /\ last.ret.path = RootPrefix \o last.args.path
          /\ getRelPath(last.ret.path) = last.args.path
    /\ last.op = "getRelPath" =>
          /\ last.args.of # Unset => last.ret.path = last.args.of[1]
          /\ ~HasPrefix(last.args.path, RootPrefix) => last.ret.path = last.args.path
          /\ HasPrefix(last.args.path, RootPrefix) =>
                RootPrefix \o last.ret.path = last.args.path

\* a path that begins like the root prefix has made the round trip under a work
\* dir that is not the default
C11_Witness ==
    /\ last.op = "getRelPath"
    /\ last.args.of = Some(<<"w", "/", "a">>)
    /\ workDir = <<"/", "w", "/">>
    /\ last.ret.path = <<"w", "/", "a">>

\* a closed range header, and whether it is well formed
IsClosedRange(range) == range # Unset /\ Len(range[1]) = 4
WellFormed(range) == range[1][4] >= range[1][2] /\ range[1][2] >= 0

\* C12: for all non-negative offsets and sizes, size 0 included,
\* formatGetObjectInput sets the range "bytes=offset-(offset+size-1)" when both
\* are present, "bytes=offset-" for an offset only, "bytes=0-(size-1)" for a
\* size only, and no range when neither is present; a closed range selects
\* exactly size bytes and is well formed: last >= first >= 0.
C12_RangeAsStated ==
    last.op = "formatGetObjectInput" =>
       LET opt   == last.args.opt
           range == last.ret.input.Range
       IN  /\ last.ret.err = Nil
           /\ (opt.HasOffset /\ opt.HasSize) =>
                 range = Some(RangeHeader(opt.Offset, opt.Offset + opt.Size - 1))
           /\ (opt.HasOffset /\ ~opt.HasSize) => range = Some(RangeFrom(opt.Offset))
           /\ (~opt.HasOffset /\ opt.HasSize) => range = Some(RangeHeader(0, opt.Size - 1))
           /\ (~opt.HasOffset /\ ~opt.HasSize) => range = Unset
           /\ IsClosedRange(range) =>
                 /\ range[1][4] - range[1][2] + 1 = opt.Size
                 /\ WellFormed(range)

\* the same, for the sizes greater than 0 (not a statement of the
\* specification: the part of it the formatter meets)
RangeOfPositiveSize ==
    (last.op = "formatGetObjectInput" /\ IsClosedRange(last.ret.input.Range)
       /\ last.args.opt.Size > 0)
    => WellFormed(last.ret.input.Range)

----------------------------------------------------------------------------
(* Further properties of the operations, under SpecOps *)

\* C13: every operation invocation issues at most one backend call, and when
\* that call fails its error is what the operation returns, with no further
\* call.
C13_AtMostOneCall ==
    /\ Len(last.calls) <= 1
    /\ (last.calls # <<>> /\ last.err # Nil) =>
          last.err \in {RequestFailure(code) :
                           code \in {"AccessDenied", "NoSuchKey", "NoSuchUpload"}}
                       \cup {ErrCanceled}

ReachesDeleteObject ==
    \/ ~last.args.opt.HasMultipartID
    \/ last.op = "delete" /\ ~(Len(last.calls) = 1 /\ last.err # Nil
                                /\ last.calls[1].input.api = "AbortMultipartUpload")

-----------------------------------------------------------------------------
(* The boundary error mapping, under SpecFn *)

\* the taxonomy class a mapped error is reported under: the sentinel that
\* errors.Is finds in it
ClassOf(err) ==
    IF err.type = "fmt.wrapError" THEN err.wraps
    ELSE IF err.type = "services.PairUnsupportedError" THEN "ErrCapabilityInsufficient"
    ELSE IF err.type = "types.OperationNotImplementedError" THEN "ErrCapabilityInsufficient"
    ELSE IF err.type = "services.ErrorCode" THEN err.msg
    ELSE "none"

\* C15: formatError gives nil for nil and no other error; a backend request
\* failure with code NoSuchKey or NotFound is reported as ErrObjectNotExist,
\* one with code AccessDenied as ErrPermissionDenied, every other backend
\* failure and every error that is neither a backend failure nor an internal
\* error as ErrUnexpected; the result names the operation and the path.
C15_ErrorMapping ==
    last.op = "formatError" =>
        LET e == last.args.err
            r == last.ret.err
        IN  /\ (e = Nil) <=> (r = Nil)
            /\ e # Nil =>
                  /\ r.type = "services.StorageError"
                  /\ r.Op = last.args.op /\ r.Path = last.args.path
                  /\ e.type = "awserr.RequestFailure" =>
                        ClassOf(r.Err) =
                            IF e.msg \in {"NoSuchKey", "NotFound"} THEN "ErrObjectNotExist"
                            ELSE IF e.msg = "AccessDenied" THEN "ErrPermissionDenied"
                            ELSE "ErrUnexpected"
                  /\ (e.type # "awserr.RequestFailure" /\ e.type \notin InternalErrorTypes)
                        => ClassOf(r.Err) = "ErrUnexpected"

\* a backend failure with code NotFound has been mapped to ErrObjectNotExist
C15_Witness ==
    /\ last.op = "formatError"
    /\ last.args.err = RequestFailure("NotFound")
    /\ last.ret.err.type = "services.StorageError"
    /\ ClassOf(last.ret.err.Err) = "ErrObjectNotExist"

\* the errors the operations raise themselves, before any backend call
LocallyRaised ==
    {ErrRestriction("size limit exceeded"),
     ErrRestriction("multipart number limit exceeded"),
     PairUnsupportedError("object_mode"),
     ErrServerSideEncryptionCustomerKeyInvalid}

\* C20: a locally raised error (restriction violated, unsupported option,
\* invalid encryption key) passed through formatError is reported under the
\* class it was raised with, and the error inside the result is the original.
C20_LocalClassPreserved ==
    (last.op = "formatError" /\ last.args.err \in LocallyRaised) =>
        /\ ClassOf(last.ret.err.Err) = ClassOf(last.args.err)
        /\ last.ret.err.Err = last.args.err

\* what the code does keep: the internal errors (unsupported option, invalid
\* encryption key) pass through unchanged
InternalErrorsPassThrough ==
    (last.op = "formatError" /\ last.args.err.type \in InternalErrorTypes) =>
        last.ret.err.Err = last.args.err

-----------------------------------------------------------------------------
(* Part numbers on the wire, under SpecOps *)

\* the part numbers of one request
PartNumbersOf(input) ==
    IF input.api = "UploadPart" THEN {input.PartNumber}
    ELSE IF input.api = "CompleteMultipartUpload"
    THEN {input.MultipartUpload[i].PartNumber : i \in 1..Len(input.MultipartUpload)}
    ELSE {}

\* the requests an operation has emitted: the calls it made, and the request
\* it has signed
Emitted ==
    {last.calls[i].input : i \in 1..Len(last.calls)}
    \cup (IF last.op \in PresignOps /\ last.err = Nil THEN {last.ret.input} ELSE {})

\* C19: every part number of an emitted upload-part or complete request, direct
\* or presigned, lies in [1, multipartNumberMaximum].
C19_PartNumbersInRange ==
    \A input \in Emitted : PartNumbersOf(input) \subseteq 1..multipartNumberMaximum

\* the direct calls do keep the range, for the indexes writeMultipart accepts
\* and the parts it returned
DirectPartNumbersInRange ==
    \A i \in 1..Len(last.calls) :
        PartNumbersOf(last.calls[i].input) \subseteq 1..multipartNumberMaximum

-----------------------------------------------------------------------------
(* Cursors of the listings, under SpecList *)

\* the cursor a page request carries
CursorSent(listInput) ==
    IF listInput.api = "ListObjectsV2"
    THEN [continuationToken |-> StringValue(listInput.ContinuationToken, <<>>)]
    ELSE IF listInput.api = "ListMultipartUploads"
    THEN [keyMarker |-> StringValue(listInput.KeyMarker, <<>>),
          uploadIdMarker |-> StringValue(listInput.UploadIdMarker, "")]
    ELSE [partNumberMarker |-> Int64Value(listInput.PartNumberMarker)]

\* the i-th page request of the iterator was answered, truncated, and followed
\* by the request i + 1 (a failed request ends the iteration, so every request
\* but the last was answered)
NextCursorCarried(i) ==
    /\ CursorSent(page.calls[i + 1].input) = page.nexts[i]
    /\ CursorSent(page.calls[i + 1].input) # CursorSent(page.calls[i].input)

\* C17: in each of the four listings, the page request that follows a
\* truncated answer carries the next cursor the backend issued with that
\* answer, and not the cursor of the request just answered.
C17_CursorProgress ==
    \A i \in 1..(Len(page.calls) - 1) : NextCursorCarried(i)

\* the three listings that do store the next cursor: by directory, by prefix,
\* and the parts of a session
ListingsWithNextCursor ==
    page.next # "nextPartObjectPageByPrefix" =>
        \A i \in 1..(Len(page.calls) - 1) : NextCursorCarried(i)

\* no entry is yielded twice by one iterator
NoEntryTwice ==
    \A i, j \in 1..Len(page.seen) : page.seen[i] = page.seen[j] => i = j

\* a step of the iterator that fetches one page
Fetches == Len(page'.calls) = Len(page.calls) + 1

\* C18: a page fetch whose backend call fails or is cancelled returns that one
\* error from one call, leaves the page's buffer without an entry and every
\* field of the page status as it was, and hands nothing to the caller; the
\* page status is written only by a fetch the backend answered "truncated".
C18_FailedFetchKeepsCursor ==
    [][Fetches =>
          /\ page'.state = "Failed" =>
                /\ page'.err \notin {Nil, IterateDone}
                /\ page'.status = page.status
                /\ page'.data = <<>>
                /\ page'.seen = page.seen /\ page'.pages = page.pages
                /\ page'.answers = page.answers
          /\ page'.status # page.status =>
                /\ page'.state = "HasPage"
                /\ page'.answers = Append(page.answers, TRUE)]_vars

\* a listing of parts has failed on its second page: the page status still
\* holds the cursor that the first answer issued
C18_Witness ==
    /\ page.state = "Failed"
    /\ page.next = "nextPartPage"
    /\ Len(page.calls) = 2
    /\ page.nexts = <<[partNumberMarker |-> page.status.partNumberMarker]>>
    /\ page.status.partNumberMarker > 0
    /\ page.data = <<>>

-----------------------------------------------------------------------------
(* Two callers upload parts of one session side by side: writeMultipart,     *)
(* step by step. Each caller's arguments, locals and results are its own     *)
(* (running[c]); the object descriptor, the Storage and the bucket are       *)
(* shared.                                                                   *)

\* the session both callers write to
ParSession ==
    [newObject EXCEPT !.ID = getAbsPath(<<"a">>), !.Path = <<"a">>,
                      !.Mode = {ModePart}, !.MultipartID = Some("u1")]

ParSizes == {<<0, 7>>, <<5, 1>>}
ParOpts == {NoOpt, WithKey(NoOpt, TRUE, customerKeyLength - 1)}

InitPar ==
    /\ workDir \in WorkDirs
    /\ features = [VirtualDir |-> FALSE, VirtualLink |-> FALSE]
    /\ obj = ParSession
    /\ last = Idle
    /\ store = [objects |-> BucketKeys,
                uploads |-> Uploads0 \cup {[Key |-> ParSession.ID, UploadId |-> "u1"]},
                parts |-> {}, issued |-> 1]
    /\ page = NoIterator
    /\ held = {}
    /\ running = [c \in Callers |-> NotRunning]

\* the descriptor as one upload of a part leaves it: writeMultipart reads
\* o.ID and the multipart ID, and assigns to no field
ObjectAfterUploadPartKeepsETag(o, output) == [o EXCEPT !.Etag = Some(output.ETag)]

ObjectAfterUploadPart(o, output) == o

\* storage.go lines 857-864: a caller enters writeMultipart with a size, an
\* index no other running call has, and its pairs; the limits are checked
UploadPartBegin(c) ==
    /\ running[c].pc = "none"
    /\ \E size \in ParSizes, index \in Indexes, opt \in ParOpts :
          /\ \A d \in Callers \ {c} : running[d].pc = "none" \/ running[d].index # index
          /\ LET r == [NotRunning EXCEPT !.size = size, !.index = index, !.opt = opt]
             IN  running' = [running EXCEPT ![c] =
                    IF Gt64(size, multipartSizeMaximum)
                    THEN [r EXCEPT !.pc = "returned",
                                   !.err = ErrRestriction("size limit exceeded")]
                    ELSE IF index < 0 \/ index >= multipartNumberMaximum
                    THEN [r EXCEPT !.pc = "returned",
                                   !.err = ErrRestriction("multipart number limit exceeded")]
                    ELSE [r EXCEPT !.pc = "format"]]
    /\ UNCHANGED <<workDir, features, obj, last, store, page, held>>

\* storage.go lines 870-889: the input, built from the descriptor and the pairs
UploadPartFormat(c) ==
    /\ running[c].pc = "format"
    /\ LET r  == running[c]
           i0 == [UploadPartInput(obj, r.size, r.index) EXCEPT !.Body = Some("body")]
           f  == WithSSEC(WithOwner(i0, r.opt), r.opt)
       IN  running' = [running EXCEPT ![c] =
              IF f.err # Nil THEN [r EXCEPT !.pc = "returned", !.err = f.err]
              ELSE [r EXCEPT !.pc = "call", !.input = f.input]]
    /\ UNCHANGED <<workDir, features, obj, last, store, page, held>>

\* storage.go lines 891-894: the backend takes the part under its number and
\* confirms it with an ETag, or fails, or the context is cancelled
UploadPartCall(c) ==
    /\ running[c].pc = "call"
    /\ \E run \in Runs, etag \in ETags :
          LET r    == running[c]
              in   == r.input
              err  == ErrOf(Outcome(Call(in, TRUE), run[1], run[2]))
          IN  IF err # Nil
              THEN /\ running' = [running EXCEPT ![c] = [r EXCEPT !.pc = "returned",
                                                                  !.err = err]]
                   /\ UNCHANGED <<obj, store>>
              ELSE /\ running' = [running EXCEPT ![c] =
                                     [r EXCEPT !.pc = "answered",
                                               !.output = [ETag |-> etag]]]
                   /\ obj' = ObjectAfterUploadPart(obj, [ETag |-> etag])
                   /\ store' = [store EXCEPT
                                  !.parts = {q \in @ : ~ /\ q.Key = in.Key
                                                         /\ q.UploadId = in.UploadId
                                                         /\ q.PartNumber = in.PartNumber}
                                            \cup {[Key |-> in.Key, UploadId |-> in.UploadId,
                                                   PartNumber |-> in.PartNumber,
                                                   Size |-> in.ContentLength[1],
                                                   ETag |-> etag]}]
    /\ UNCHANGED <<workDir, features, last, page, held>>

\* storage.go lines 896-901: the Part, of the index and size given and the
\* ETag of the answer
UploadPartBuild(c) ==
    /\ running[c].pc = "answered"
    /\ running' = [running EXCEPT ![c] =
                      [@ EXCEPT !.pc = "returned", !.n = running[c].size,
                                !.part = [Index |-> running[c].index,
                                          Size |-> running[c].size,
                                          ETag |-> running[c].output.ETag]]]
    /\ UNCHANGED <<workDir, features, obj, last, store, page, held>>

\* the caller has taken what the call returned
UploadPartDone(c) ==
    /\ running[c].pc = "returned"
    /\ running' = [running EXCEPT ![c] = NotRunning]
    /\ UNCHANGED <<workDir, features, obj, last, store, page, held>>

NextPar ==
    \E c \in Callers :
        \/ UploadPartBegin(c)
        \/ UploadPartFormat(c)
        \/ UploadPartCall(c)
        \/ UploadPartBuild(c)
        \/ UploadPartDone(c)

SpecPar == InitPar /\ [][NextPar]_vars

\* a call that has returned a Part
ReturnedPart(c) == running[c].pc = "returned" /\ running[c].err = Nil

\* C16: while two callers upload parts of different indices to one session,
\* whatever the interleaving of their steps, the object descriptor, the work
\* directory and the features stay as they were, and every call that returns
\* a Part returns the index and the size it was called with, and the ETag
\* under which the backend holds the part of that number.
C16_ConcurrentUploadPart ==
    /\ obj = ParSession
    /\ \A c \in Callers :
          ReturnedPart(c) =>
             /\ running[c].part.Index = running[c].index
             /\ running[c].part.Size = running[c].size
             /\ running[c].n = running[c].size
             /\ [Key |-> ParSession.ID, UploadId |-> "u1",
                 PartNumber |-> running[c].index + 1, Size |-> running[c].size,
                 ETag |-> running[c].part.ETag] \in store.parts

\* both callers have returned a Part, of different indices and different
\* ETags, from calls that ran side by side
C16_Witness ==
    /\ ReturnedPart("c1") /\ ReturnedPart("c2")
    /\ running["c1"].part.Index # running["c2"].part.Index
    /\ running["c1"].part.ETag # running["c2"].part.ETag
    /\ obj = ParSession

-----------------------------------------------------------------------------
(* The entries of one page, under SpecList *)

\* the user path of a backend key: the key without the root prefix, or the key
\* itself when it does not start with it
IsRelativeOf(path, key) ==
    IF HasPrefix(key, RootPrefix) THEN RootPrefix \o path = key ELSE path = key

\* the entry e is the entry of the given mode for the backend key
EntryFor(e, key, mode) ==
    /\ e.ID = key
    /\ e.Mode = {mode}
    /\ IsRelativeOf(e.Path, key)

\* the page holds what the backend answered to its request
PageAnswered == page.state \in {"HasPage", "Done"} /\ page.pages >= 1

\* C21: a page of a directory-mode listing holds one directory-mode entry per
\* common prefix of the answer, in the answer's order, followed by one
\* readable entry per content object of the answer, in the answer's order; a
\* page of a prefix-mode listing holds the readable entries of the contents
\* only, in the answer's order; every entry's path is the relative path of
\* its key.
C21_PageEntries ==
    LET pre == page.got.prefixes
        con == page.got.contents
    IN  /\ (page.next = "nextObjectPageByDir" /\ PageAnswered) =>
              /\ Len(page.data) = Len(pre) + Len(con)
              /\ \A i \in 1..Len(pre) : EntryFor(page.data[i], pre[i], ModeDir)
              /\ \A i \in 1..Len(con) :
                    EntryFor(page.data[Len(pre) + i], con[i], ModeRead)
        /\ (page.next = "nextObjectPageByPrefix" /\ PageAnswered) =>
              /\ Len(page.data) = Len(con)
              /\ \A i \in 1..Len(con) : EntryFor(page.data[i], con[i], ModeRead)

\* a page of a directory-mode listing holds a directory entry and, after it,
\* the entry of an object whose key sorts before the directory's
C21_Witness ==
    /\ page.next = "nextObjectPageByDir" /\ PageAnswered
    /\ Len(page.got.prefixes) >= 1 /\ Len(page.got.contents) >= 1
    /\ page.data[1].Mode = {ModeDir}
    /\ page.data[Len(page.data)].Mode = {ModeRead}
    /\ LexLess(page.data[Len(page.data)].ID, page.data[1].ID)
    /\ page.data[1].Path # page.data[1].ID

====
